---- MODULE Spec2Model ----
(***************************************************************************)
(* Stock reconciliation of the sales-tracking application.                 *)
(*                                                                         *)
(* The engine is made of pure functions over one Product record and the    *)
(* sales ledger (registerSales):                                           *)
(*   calculateStockFinal, hasEarlySales, getEarlySalesQuantity             *)
(*       (utils/calculateStockFinal)                                       *)
(*   calculateHistoricalStock  (closure of the stock screen)               *)
(*                                                                         *)
(* Strings are sequences of one-character strings, so that toLowerCase and *)
(* trim are computed and not assumed.  A Date is an integer number of      *)
(* ticks (the millisecond of the source) in local time; a calendar day is  *)
(* TicksPerDay consecutive ticks.  An ISO date string 'yyyy-MM-dd' is the  *)
(* one-element sequence <<day>>, the empty string (or an absent field) is  *)
(* the empty sequence, which is what JavaScript's `!s` tests.              *)
(***************************************************************************)
EXTENDS Integers, Sequences, FiniteSets, TLC

\* ---------------------------------------------------------------- bounds
\* lines in the ledger
MaxSales == 2
\* units sold on one ledger line, units in product.quantitySold
MaxQty == 1
\* units in product.initialStock and in product.stock
MaxStock == 1
\* products in the list handed to useStockStatistics
MaxProducts == 3
\* products in the repository shown by the stock screen
MaxCatalog == 2

\* ------------------------------------------------------------------- time
\* A calendar day is represented by its first and its last millisecond, the
\* two instants the source compares with: parseISO gives the first one,
\* endOfDay the last one.
TimesOfDay == <<"00:00:00.000", "23:59:59.999">>
TicksPerDay == Len(TimesOfDay)

\* Two consecutive calendar days: the eve and the day (2023-12-31 and
\* 2024-01-01 in the scenario of the specification).
Days == {0, 1}
Instants == { d * TicksPerDay + (k - 1) : d \in Days, k \in 1..TicksPerDay }

\* The as-of dates of the stock screen: every instant of the days above and
\* the midnight of the day before the eve, a day earlier than every ledger
\* line (2023-12-15 in the scenario of the specification).
TargetInstants == Instants \cup { 0 - TicksPerDay }

\* ------------------------------------------------------------ input sets
\* The product's own (name, category), and the pair a ledger line of that
\* product carries: equal only after lowercasing and trimming.
ProductKeys ==
  { [name |-> <<"W", " ">>, category |-> <<"T">>] }

OwnKey == [product |-> <<" ", "w">>, category |-> <<"t", " ">>]

\* Pairs of other products: same name and another category, another name
\* and the same category.
OtherKeys ==
  { [product |-> <<"W", " ">>, category |-> <<"u">>],
    [product |-> <<"x">>,      category |-> <<"T">>] }

\* RegisterSale: the fields of a ledger line the engine reads.  The lines of
\* the product range over every instant and sell nothing or MaxQty units;
\* the lines of other products sit at the end of the eve, an instant that
\* passes the date test of each of the four functions for some product and
\* as-of date.
RegisterSale ==
  { [product |-> OwnKey.product, category |-> OwnKey.category,
     date |-> d, quantity |-> q] : d \in Instants, q \in {0, MaxQty} }
  \cup
  { [product |-> k.product, category |-> k.category,
     date |-> TicksPerDay - 1, quantity |-> MaxQty] : k \in OtherKeys }

\* Product: the fields of a product the engine reads.  The denormalized
\* stock and quantitySold are stored fields, independent of the ledger.
Product ==
  { [name |-> k.name, category |-> k.category, initialStock |-> i,
     initialStockDate |-> isd, stock |-> s, quantitySold |-> qs] :
      k \in ProductKeys, i \in 0..MaxStock,
      isd \in {<< >>} \cup { <<d>> : d \in Days },
      s \in {0, MaxStock}, qs \in {0, MaxQty} }

Ledgers == UNION { [1..n -> RegisterSale] : n \in 0..MaxSales }

\* The fields of a product useStockStatistics reads.  Nothing sold at the
\* lower price, or MaxQty units sold at either price; stock and minStock
\* empty or full, which gives the three stock levels and the product out of
\* stock below its threshold.
Categories == { <<"T">>, <<"u">> }
Prices == {1, 2}

StatProduct ==
  { [category |-> c, stock |-> s, minStock |-> m, quantitySold |-> qs,
     price |-> pr] :
      c \in Categories, s \in {0, MaxStock}, m \in {0, MaxStock},
      qs \in {0, MaxQty}, pr \in Prices }
  \ { [category |-> c, stock |-> s, minStock |-> m, quantitySold |-> 0,
       price |-> 2] :
      c \in Categories, s \in {0, MaxStock}, m \in {0, MaxStock} }

StatLists == UNION { [1..n -> StatProduct] : n \in 0..MaxProducts }

\* The repository of the stock screen, in the order the products were
\* created, which is not the order of their names: the product of id i is
\* named "x" (i odd) or "W " (i even), in the category made of i letters
\* "T"; its stored stock and quantitySold are in step with its initial
\* stock, the way handleInitialStockChange leaves them.
NameOf(i) == IF i % 2 = 1 THEN <<"x">> ELSE <<"W", " ">>
CategoryOf(i) == [j \in 1..i |-> "T"]

CatalogProduct(i) ==
  { [id |-> i, name |-> NameOf(i), category |-> CategoryOf(i), price |-> 2,
     minStock |-> m, initialStock |-> MaxStock, initialStockDate |-> << >>,
     stock |-> IF MaxStock >= qs THEN MaxStock - qs ELSE 0,
     quantitySold |-> qs, description |-> << >>] :
      m \in {0, MaxStock}, qs \in {0, MaxQty} }

Catalogs ==
  UNION { { c \in [1..n -> UNION { CatalogProduct(i) : i \in 1..n }] :
              \A i \in 1..n : c[i].id = i } : n \in 0..MaxCatalog }

\* The ledger of the stock screen: for each product of the repository at
\* most one line at the last instant of the eve and one at the first
\* instant of the day, each of MaxQty units at the product's price, written
\* with the product's name in lower case after a space, in the category of
\* i letters "t" followed by a space.
SaleOf(i, k) ==
  [id |-> 2 * (i - 1) + k,
   product |-> IF i % 2 = 1 THEN <<" ", "x">> ELSE <<" ", "w">>,
   category |-> [j \in 1..i |-> "t"] \o <<" ">>,
   date |-> TicksPerDay - 2 + k,
   quantity |-> MaxQty,
   total |-> MaxQty * 2]

AllScreenSales ==
  [n \in 1..(2 * MaxCatalog) |-> SaleOf((n + 1) \div 2, 2 - (n % 2))]

ScreenLedgers ==
  { SelectSeq(AllScreenSales, LAMBDA sale : sale.id \in S) :
      S \in SUBSET (1..(2 * MaxCatalog)) }

\* The product of the StockModule screen that carries a stockHistory: the
\* entries of its history are dated at any instant of the two days.
StockHistories ==
  UNION { [1..n -> [date : Instants]] : n \in 0..MaxSales }

HistoryProduct ==
  { [id |-> 1, name |-> NameOf(1), category |-> CategoryOf(1), price |-> 2,
     minStock |-> 0, stock |-> MaxStock, quantitySold |-> 0,
     description |-> << >>, stockHistory |-> h] : h \in StockHistories }

\* The products handed to useFilteredProducts.  The product of id i is named
\* as in the repository above; its category is "W" or "u", two strings that
\* compare one way as written and the other way in lower case; its price
\* follows its category.  It is out of stock with no threshold (and MaxQty
\* units sold) or below a threshold, or at its threshold with MaxStock + 1
\* units, or above a threshold of 0 with MaxStock units: the product with
\* the larger stock is the one of the lower stock level.
HookLevels ==
  { [stock |-> 0, minStock |-> 0, quantitySold |-> MaxQty],
    [stock |-> 0, minStock |-> MaxStock, quantitySold |-> 0],
    [stock |-> MaxStock + 1, minStock |-> MaxStock + 1, quantitySold |-> 0],
    [stock |-> MaxStock, minStock |-> 0, quantitySold |-> 0] }

HookProduct(i) ==
  { [id |-> i, name |-> NameOf(i), category |-> c,
     price |-> IF c = <<"W">> THEN 1 ELSE 2,
     stock |-> l.stock, minStock |-> l.minStock,
     quantitySold |-> l.quantitySold, description |-> << >>] :
      c \in { <<"W">>, <<"u">> }, l \in HookLevels }

HookLists ==
  UNION { { c \in [1..n -> UNION { HookProduct(i) : i \in 1..n }] :
              \A i \in 1..n : c[i].id = i } : n \in 0..MaxProducts }

\* The sizes of a page.  The select offers 10, 25, 50 and 100; they are
\* scaled down to sizes that split a list of a few products in
\* several pages.
PageSizes == {1, 2}

\* the columns whose header sorts the table
SortFields == {"name", "category", "price", "stock", "minStock", "quantitySold"}

\* format(new Date(), 'yyyy-MM-dd') when the product edit modal opens
TodayDates == { <<d>> : d \in Days }

\* the date range of the screen: two 'yyyy-MM-dd' strings, each possibly ''
DateRanges ==
  [start : {<< >>} \cup { <<d>> : d \in Days },
   end : {<< >>} \cup { <<d>> : d \in Days }]

\* ------------------------------------------------------- library functions
\* String.prototype.toLowerCase, one character
LowerChar(c) ==
  CASE c = "W" -> "w"
    [] c = "T" -> "t"
    [] OTHER -> c

toLowerCase(s) == [i \in 1..Len(s) |-> LowerChar(s[i])]

IsSpace(c) == c = " "

RECURSIVE trimStart(_)
trimStart(s) ==
  IF s # << >> /\ IsSpace(Head(s)) THEN trimStart(Tail(s)) ELSE s

RECURSIVE trimEnd(_)
trimEnd(s) ==
  IF s # << >> /\ IsSpace(s[Len(s)]) THEN trimEnd(SubSeq(s, 1, Len(s) - 1)) ELSE s

\* String.prototype.trim
trim(s) == trimEnd(trimStart(s))

\* String.prototype.includes
includes(s, sub) ==
  \E i \in 0..(Len(s) - Len(sub)) : SubSeq(s, i + 1, i + Len(sub)) = sub

\* date-fns parseISO of a 'yyyy-MM-dd' string: local midnight of that day
parseISO(str) == str[1] * TicksPerDay

\* date-fns comparisons of two instants
isAfter(a, b) == a > b
isBefore(a, b) == a < b
isEqual(a, b) == a = b

\* date-fns startOfDay: the first tick of the local calendar day of an instant
startOfDay(t) == (t \div TicksPerDay) * TicksPerDay

\* new Date('yyyy-MM-dd'): the midnight of that day, the screen running in
\* a UTC zone
newDate(str) == str[1] * TicksPerDay

\* A JavaScript number that may be NaN is the one-element sequence <<n>>, or
\* the empty sequence for NaN.
NaN == << >>
IsNaN(v) == v = NaN

\* a < b on two such numbers: false as soon as one is NaN
numberLess(a, b) == ~IsNaN(a) /\ ~IsNaN(b) /\ a[1] < b[1]

\* a || b on a number: 0 and NaN are falsy
numberOr(a, b) == IF IsNaN(a) \/ a[1] = 0 THEN b ELSE a

DigitChars == <<"0", "1", "2", "3", "4", "5", "6", "7", "8", "9">>
IsDigit(c) == \E d \in 1..Len(DigitChars) : DigitChars[d] = c
DigitValue(c) == (CHOOSE d \in 1..Len(DigitChars) : DigitChars[d] = c) - 1

\* the digits a string starts with
RECURSIVE leadingDigits(_)
leadingDigits(s) ==
  IF s # << >> /\ IsDigit(Head(s)) THEN <<Head(s)>> \o leadingDigits(Tail(s))
  ELSE << >>

RECURSIVE digitsValue(_)
digitsValue(ds) ==
  IF ds = << >> THEN 0
  ELSE 10 * digitsValue(SubSeq(ds, 1, Len(ds) - 1)) + DigitValue(ds[Len(ds)])

\* parseInt: leading white space skipped, an optional sign, then the digits
\* the string starts with; NaN when there is none
parseInt(str) ==
  LET s == trimStart(str)
      negative == s # << >> /\ Head(s) = "-"
      unsigned == IF s # << >> /\ Head(s) \in {"-", "+"} THEN Tail(s) ELSE s
      ds == leadingDigits(unsigned)
  IN  IF ds = << >> THEN NaN
      ELSE <<IF negative THEN 0 - digitsValue(ds) ELSE digitsValue(ds)>>

\* parseFloat, on the strings without a decimal point or an exponent
parseFloat(str) == parseInt(str)

\* Number.prototype.toString of an integer
RECURSIVE naturalToString(_)
naturalToString(n) ==
  IF n < 10 THEN <<DigitChars[n + 1]>>
  ELSE naturalToString(n \div 10) \o <<DigitChars[(n % 10) + 1]>>

numberToString(n) ==
  IF n < 0 THEN <<"-">> \o naturalToString(0 - n) ELSE naturalToString(n)

\* the UTF-16 code unit of a character
CharCode(c) ==
  CASE c = " " -> 32
    [] c = "T" -> 84
    [] c = "W" -> 87
    [] c = "t" -> 116
    [] c = "u" -> 117
    [] c = "w" -> 119
    [] c = "x" -> 120

\* a < b on two strings
RECURSIVE stringLess(_, _)
stringLess(a, b) ==
  IF b = << >> THEN FALSE
  ELSE IF a = << >> THEN TRUE
  ELSE IF CharCode(Head(a)) # CharCode(Head(b))
       THEN CharCode(Head(a)) < CharCode(Head(b))
       ELSE stringLess(Tail(a), Tail(b))

\* date-fns endOfDay: the last tick of the local calendar day of an instant
endOfDay(t) == (t \div TicksPerDay) * TicksPerDay + (TicksPerDay - 1)

\* the reduce with its accumulator overwritten, (sum, sale) => sale.quantity
reduceQuantity_LastOnly(list) ==
  IF list = << >> THEN 0 ELSE list[Len(list)].quantity

\* Array.prototype.reduce((sum, sale) => sum + sale.quantity, 0)
RECURSIVE reduceQuantity(_)
reduceQuantity(list) ==
  IF list = << >> THEN 0
  ELSE list[1].quantity + reduceQuantity(Tail(list))

\* Math.max with the clamp lost: the second argument whatever its sign
Max_Unclamped(a, b) == b

\* Math.max
Max(a, b) == IF a >= b THEN a ELSE b

\* ------------------------------------------------------------------ state
VARIABLES
  product,        \* the Product handed to the engine
  registerSales,  \* the sales ledger, in ledger order
  ret,            \* the last call: its name, its as-of argument, its result
  filteredProducts, \* the product list handed to the aggregator
  stats,          \* what the aggregator returned, once called
  products,       \* the product repository shown by the stock screen
  dateRange,      \* the date range of the stock screen
  enhanced,       \* the array held by the memo enhancedProducts of the screen
  editingProduct, \* the product in the edit form of the stock screen, or none
  editForm,       \* the fields of that form, all strings
  modal,          \* the product edit modal: its props, formData and errors
  written,        \* the last write handed to the product repository
  rangeRet,       \* what the last date-range filter kept
  screen,         \* the component mounted: StockModule, or the stock screen
                  \* of StockFilters.tsx
  searchTerm,     \* the search field
  currentPage,    \* the page shown
  itemsPerPage,   \* the page size
  selectedProducts, \* the set of the selected product ids
  showDeleteModal,  \* the delete confirmation modal is open
  isDeleting,     \* a confirmed deletion is awaited
  deleteCall,     \* the delete callback awaited, with its argument
  showSyncModal,  \* the auto-sync modal is open
  isSyncing,      \* a sync is awaited
  syncResult,     \* the result of the last sync, or none
  syncCalls,      \* the calls of autoSyncProductsFromSales: how many are
                  \* not settled yet, and how the last one settled
  hookProps,      \* the props useFilteredProducts is called with
  hook,           \* what useFilteredProducts returned, once called
  sorting,        \* sortField and sortDirection of the screen
  activeTab,      \* the tab shown: list or import
  timeouts,       \* the pending timeouts of the effect saving the view
                  \* state, each the values its callback closed over
  updateStateCalls \* the arguments of the calls of updateState since that
                  \* effect last ran

editVars == <<editingProduct, editForm, modal, written>>

pageVars == <<searchTerm, currentPage, itemsPerPage>>
selectVars == <<selectedProducts, showDeleteModal, isDeleting, deleteCall>>
syncVars == <<showSyncModal, isSyncing, syncResult, syncCalls>>

\* the state of the filters and of the StockModule screen
hookVars == <<hookProps, hook>>

\* the state of the effect saving the view state
saveVars == <<sorting, activeTab, timeouts, updateStateCalls>>

uiVars == <<rangeRet, screen, pageVars, selectVars, syncVars, hookVars,
            saveVars>>

vars == <<product, registerSales, ret, filteredProducts, stats, products,
          dateRange, enhanced, editingProduct, editForm, modal, written,
          uiVars>>

NoResult == [stock |-> 0, quantitySold |-> 0, flag |-> FALSE]

\* ------------------------------------------------------------- the engine
\* The four functions repeat the same pairing expression,
\*   sale.product.toLowerCase().trim() === product.name.toLowerCase().trim() &&
\*   sale.category.toLowerCase().trim() === product.category.toLowerCase().trim()
\* each followed or preceded by its own test of the date.

\* calculateStockFinal's filter comparing the raw strings (no trim, no
\* lowercasing)
relevantSale_RawStrings(sale, p) ==
  /\ sale.product = p.name
  /\ sale.category = p.category
  /\ (isAfter(sale.date, parseISO(p.initialStockDate))
      \/ isEqual(sale.date, parseISO(p.initialStockDate)))

\* calculateStockFinal's filter without its test of the date
relevantSale_AnyDate(sale, p) ==
  /\ trim(toLowerCase(sale.product)) = trim(toLowerCase(p.name))
  /\ trim(toLowerCase(sale.category)) = trim(toLowerCase(p.category))

\* calculateStockFinal's filter without isEqual: strictly after the date
relevantSale_StrictlyAfter(sale, p) ==
  /\ trim(toLowerCase(sale.product)) = trim(toLowerCase(p.name))
  /\ trim(toLowerCase(sale.category)) = trim(toLowerCase(p.category))
  /\ isAfter(sale.date, parseISO(p.initialStockDate))

\* the filter of calculateStockFinal: on or after the initial stock date
relevantSale(sale, p) ==
  /\ trim(toLowerCase(sale.product)) = trim(toLowerCase(p.name))
  /\ trim(toLowerCase(sale.category)) = trim(toLowerCase(p.category))
  /\ (isAfter(sale.date, parseISO(p.initialStockDate))
      \/ isEqual(sale.date, parseISO(p.initialStockDate)))

\* calculateStockFinal without its early return: every line of the product
\* deducted when no initial stock date is set
calculateStockFinal_NoEarlyReturn(p, sales) ==
  LET relevantSales ==
        SelectSeq(sales, LAMBDA sale :
          IF p.initialStockDate = << >> THEN relevantSale_AnyDate(sale, p)
          ELSE relevantSale(sale, p))
  IN  Max(0, p.initialStock - reduceQuantity(relevantSales))

calculateStockFinal(p, sales) ==
  IF p.initialStockDate = << >> THEN p.initialStock
  ELSE LET relevantSales == SelectSeq(sales, LAMBDA sale : relevantSale(sale, p))
           totalSoldAfterInitialDate == reduceQuantity(relevantSales)
       IN  Max(0, p.initialStock - totalSoldAfterInitialDate)

\* hasEarlySales' test with the boundary on the wrong side: before or equal
someEarlySale_OrEqual(sale, p) ==
  /\ trim(toLowerCase(sale.product)) = trim(toLowerCase(p.name))
  /\ trim(toLowerCase(sale.category)) = trim(toLowerCase(p.category))
  /\ (isBefore(sale.date, parseISO(p.initialStockDate))
      \/ isEqual(sale.date, parseISO(p.initialStockDate)))

\* the test of hasEarlySales: strictly before the initial stock date
someEarlySale(sale, p) ==
  /\ trim(toLowerCase(sale.product)) = trim(toLowerCase(p.name))
  /\ trim(toLowerCase(sale.category)) = trim(toLowerCase(p.category))
  /\ isBefore(sale.date, parseISO(p.initialStockDate))

hasEarlySales(p, sales) ==
  IF p.initialStockDate = << >> THEN FALSE
  ELSE \E i \in 1..Len(sales) : someEarlySale(sales[i], p)

\* getEarlySalesQuantity's filter with the boundary on the wrong side:
\* before or equal
earlySale_OrEqual(sale, p) ==
  /\ trim(toLowerCase(sale.product)) = trim(toLowerCase(p.name))
  /\ trim(toLowerCase(sale.category)) = trim(toLowerCase(p.category))
  /\ (isBefore(sale.date, parseISO(p.initialStockDate))
      \/ isEqual(sale.date, parseISO(p.initialStockDate)))

\* the filter of getEarlySalesQuantity
earlySale(sale, p) ==
  /\ trim(toLowerCase(sale.product)) = trim(toLowerCase(p.name))
  /\ trim(toLowerCase(sale.category)) = trim(toLowerCase(p.category))
  /\ isBefore(sale.date, parseISO(p.initialStockDate))

getEarlySalesQuantity(p, sales) ==
  IF p.initialStockDate = << >> THEN 0
  ELSE LET earlySales == SelectSeq(sales, LAMBDA sale : earlySale(sale, p))
       IN  reduceQuantity(earlySales)

\* calculateHistoricalStock's filter without endOfDay: up to the target
\* instant itself
saleUpToDate_NoEndOfDay(sale, p, targetDate) ==
  /\ (isBefore(sale.date, targetDate[1]) \/ sale.date = targetDate[1])
  /\ trim(toLowerCase(sale.product)) = trim(toLowerCase(p.name))
  /\ trim(toLowerCase(sale.category)) = trim(toLowerCase(p.category))

\* calculateHistoricalStock's filter without its test of the date
saleUpToDate_AnyDate(sale, p, targetDate) ==
  /\ trim(toLowerCase(sale.product)) = trim(toLowerCase(p.name))
  /\ trim(toLowerCase(sale.category)) = trim(toLowerCase(p.category))

\* the filter of calculateHistoricalStock: up to the end of the target day
saleUpToDate(sale, p, targetDate) ==
  LET endOfTargetDate == endOfDay(targetDate[1])
  IN  /\ (isBefore(sale.date, endOfTargetDate) \/ sale.date = endOfTargetDate)
      /\ trim(toLowerCase(sale.product)) = trim(toLowerCase(p.name))
      /\ trim(toLowerCase(sale.category)) = trim(toLowerCase(p.category))

\* product.initialStock || product.stock + (product.quantitySold || 0)
historicalBase(p) ==
  IF p.initialStock # 0 THEN p.initialStock ELSE p.stock + p.quantitySold

calculateHistoricalStock(p, sales, targetDate) ==
  IF targetDate = << >>
  THEN \* product.quantitySold || 0: an absent quantitySold is 0
       [stock |-> p.stock, quantitySold |-> p.quantitySold, flag |-> FALSE]
  ELSE LET salesUpToDate == SelectSeq(sales, LAMBDA sale : saleUpToDate(sale, p, targetDate))
           quantitySoldUpToDate == reduceQuantity(salesUpToDate)
           historicalStock == Max(0, historicalBase(p) - quantitySoldUpToDate)
       IN  [stock |-> historicalStock, quantitySold |-> quantitySoldUpToDate,
            flag |-> TRUE]

\* --------------------------------------------------------- the aggregator
\* Array.prototype.reduce((sum, x) => sum + f(x), seed), on the sequence of
\* the terms f(x)
reduce(terms, seed) ==
  LET acc[i \in 0..Len(terms)] ==
        IF i = 0 THEN seed ELSE acc[i - 1] + terms[i]
  IN  acc[Len(terms)]

\* the sum of the stocks seeded with 1
sumStock_SeedOne(list) == reduce([i \in 1..Len(list) |-> list[i].stock], 1)

sumStock(list) == reduce([i \in 1..Len(list) |-> list[i].stock], 0)

\* product.quantitySold || 0: an absent quantitySold is 0
sumSold(list) == reduce([i \in 1..Len(list) |-> list[i].quantitySold], 0)

sumRevenue(list) ==
  reduce([i \in 1..Len(list) |-> LET sold == list[i].quantitySold
                                  IN  sold * list[i].price], 0)

countOutOfStock(list) ==
  Len(SelectSeq(list, LAMBDA product_ : product_.stock = 0))

\* the low-stock count without its test stock > 0
countLowStock_NoPositiveTest(list) ==
  Len(SelectSeq(list, LAMBDA product_ : product_.stock <= product_.minStock))

countLowStock(list) ==
  Len(SelectSeq(list, LAMBDA product_ :
        product_.stock > 0 /\ product_.stock <= product_.minStock))

\* [...new Set(values)]: the distinct values, in the order of their first
\* occurrence
RECURSIVE uniqueValues(_)
uniqueValues(values) ==
  IF values = << >> THEN << >>
  ELSE LET front == uniqueValues(SubSeq(values, 1, Len(values) - 1))
           last == values[Len(values)]
       IN  IF \E i \in 1..Len(front) : front[i] = last THEN front
           ELSE Append(front, last)

\* one step of the stable sort: e goes after every entry that does not
\* have to come after it, that is whose count is not smaller
RECURSIVE insertByCount(_, _)
insertByCount(sorted, e) ==
  IF sorted = << >> THEN <<e>>
  ELSE IF Head(sorted).count - e.count >= 0
       THEN <<Head(sorted)>> \o insertByCount(Tail(sorted), e)
       ELSE <<e>> \o sorted

\* the breakdown left in the order of first occurrence
sortByCount_Unsorted(entries) == entries

\* Array.prototype.sort((a, b) => b.count - a.count), a stable sort
RECURSIVE sortByCount(_)
sortByCount(entries) ==
  IF entries = << >> THEN << >>
  ELSE insertByCount(sortByCount(SubSeq(entries, 1, Len(entries) - 1)),
                     entries[Len(entries)])

categoryCounts(list) ==
  LET categories == uniqueValues([i \in 1..Len(list) |-> list[i].category])
      entry(category) ==
        LET productsInCategory ==
              SelectSeq(list, LAMBDA product_ : product_.category = category)
        IN  [category |-> category,
             count |-> Len(productsInCategory),
             stock |-> sumStock(productsInCategory),
             sold |-> sumSold(productsInCategory),
             revenue |-> sumRevenue(productsInCategory)]
  IN  sortByCount([i \in 1..Len(categories) |-> entry(categories[i])])

useStockStatistics(list) ==
  LET totalProducts == Len(list)
      outOfStock == countOutOfStock(list)
      lowStock == countLowStock(list)
  IN  [totalProducts |-> totalProducts,
       totalStock |-> sumStock(list),
       totalSold |-> sumSold(list),
       outOfStock |-> outOfStock,
       lowStock |-> lowStock,
       totalRevenue |-> sumRevenue(list),
       categoryCounts |-> categoryCounts(list),
       stockLevels |-> [outOfStock |-> outOfStock, lowStock |-> lowStock,
                        healthy |-> totalProducts - outOfStock - lowStock]]

\* ------------------------------------------- the statistics of the screen
\* The chain of memos of the stock screen that ends in `statistics`, with the
\* search term empty, the category, status, stock-level, register and seller
\* filters on 'all' and the sort on name, ascending: the state the screen
\* opens in.

\* getFilteredSales: the ledger lines within the date range, both ends
\* included
getFilteredSales(sales, range) ==
  IF range.start # << >> \/ range.end # << >>
  THEN SelectSeq(sales, LAMBDA sale :
         /\ range.start # << >> =>
              LET startDate == startOfDay(newDate(range.start))
              IN  isAfter(sale.date, startDate) \/ sale.date = startDate
         /\ range.end # << >> =>
              LET endDate == endOfDay(newDate(range.end))
              IN  isBefore(sale.date, endDate) \/ sale.date = endDate)
  ELSE sales

calculateProductRevenue(p, filteredSales) ==
  LET productSales ==
        SelectSeq(filteredSales, LAMBDA sale :
          /\ trim(toLowerCase(sale.product)) = trim(toLowerCase(p.name))
          /\ trim(toLowerCase(sale.category)) = trim(toLowerCase(p.category)))
  IN  reduce([i \in 1..Len(productSales) |-> productSales[i].total], 0)

enhancedProducts(list, sales, range) ==
  LET targetDate == IF range.end # << >> THEN <<newDate(range.end)>>
                    ELSE IF range.start # << >> THEN <<newDate(range.start)>>
                    ELSE << >>
  IN  [i \in 1..Len(list) |->
        LET stockInfo == calculateHistoricalStock(list[i], sales, targetDate)
        IN  list[i] @@ [displayStock |-> stockInfo.stock,
                        displayQuantitySold |-> stockInfo.quantitySold,
                        isHistoricalView |-> stockInfo.flag,
                        originalStock |-> list[i].stock,
                        originalQuantitySold |-> list[i].quantitySold]]

\* one step of the stable sort on name, ascending
RECURSIVE insertByName(_, _)
insertByName(sorted, e) ==
  IF sorted = << >> THEN <<e>>
  ELSE IF stringLess(e.name, Head(sorted).name)
       THEN <<e>> \o sorted
       ELSE <<Head(sorted)>> \o insertByName(Tail(sorted), e)

RECURSIVE sortByName(_)
sortByName(list) ==
  IF list = << >> THEN << >>
  ELSE insertByName(sortByName(SubSeq(list, 1, Len(list) - 1)), list[Len(list)])

\* The memo filteredProducts of the screen.  `filtered` starts as the array
\* of enhancedProducts itself and becomes a new array only where a filter is
\* applied; filtered.sort sorts in place the array `filtered` then is.  The
\* result is the pair of the array returned and of the array of
\* enhancedProducts as the memo leaves it.
screenFilteredProducts(array, sales, range) ==
  LET salesProductNames ==
        LET filteredSales == getFilteredSales(sales, range)
        IN  { <<trim(toLowerCase(filteredSales[i].product)),
                trim(toLowerCase(filteredSales[i].category))>> :
                i \in 1..Len(filteredSales) }
      salesFilter == range.start # << >> \/ range.end # << >>
      filtered ==
        IF salesFilter
        THEN SelectSeq(array, LAMBDA p :
               <<trim(toLowerCase(p.name)), trim(toLowerCase(p.category))>>
                 \in salesProductNames)
        ELSE array
  IN  [returned |-> sortByName(filtered),
       enhancedProducts |-> IF salesFilter THEN array ELSE sortByName(filtered)]

\* the memo productRevenues, in the order of the products
productRevenues(list, filteredSales) ==
  [i \in 1..Len(list) |-> calculateProductRevenue(list[i], filteredSales)]

\* the memo statistics (its dateInfo, a label, is left out)
statistics(list, revenues) ==
  [totalProducts |-> Len(list),
   totalStock |-> reduce([i \in 1..Len(list) |-> list[i].displayStock], 0),
   totalSold |-> reduce([i \in 1..Len(list) |-> list[i].displayQuantitySold], 0),
   outOfStock |-> Len(SelectSeq(list, LAMBDA p : p.displayStock = 0)),
   lowStock |-> Len(SelectSeq(list, LAMBDA p :
                  p.displayStock > 0 /\ p.displayStock <= p.minStock)),
   totalRevenue |-> reduce(revenues, 0),
   isHistoricalView |-> \E i \in 1..Len(list) : list[i].isHistoricalView]

\* ------------------------------------------------- useFilteredProducts
\* the date range test of the filter: a product with a stockHistory passes
\* when some entry falls within the range
matchesDateRange(p, range) ==
  IF /\ range.start # << >> \/ range.end # << >>
     /\ "stockHistory" \in DOMAIN p
     /\ Len(p.stockHistory) > 0
  THEN LET start == IF range.start # << >>
                    THEN <<startOfDay(newDate(range.start))>> ELSE << >>
           end == IF range.end # << >>
                  THEN <<endOfDay(newDate(range.end))>> ELSE << >>
       IN  \E n \in 1..Len(p.stockHistory) :
             LET entryDate == p.stockHistory[n].date
             IN  IF start # << >> /\ end # << >>
                 THEN isAfter(entryDate, start[1]) /\ isBefore(entryDate, end[1])
                 ELSE IF start # << >> THEN isAfter(entryDate, start[1])
                 ELSE IF end # << >> THEN isBefore(entryDate, end[1])
                 ELSE TRUE
  ELSE TRUE

\* the value 'all' of the category filter
AllCategories == <<"a", "l", "l">>

\* the stock-level test with the 'ok' level reaching down to the threshold
matchesStockLevel_OkAtThreshold(p, filterStockLevel) ==
  CASE filterStockLevel = "out" -> p.stock = 0
    [] filterStockLevel = "low" -> p.stock > 0 /\ p.stock <= p.minStock
    [] filterStockLevel = "ok" -> p.stock >= p.minStock
    [] OTHER -> TRUE

\* the stock-level test of the filter
matchesStockLevel(p, filterStockLevel) ==
  CASE filterStockLevel = "out" -> p.stock = 0
    [] filterStockLevel = "low" -> p.stock > 0 /\ p.stock <= p.minStock
    [] filterStockLevel = "ok" -> p.stock > p.minStock
    [] OTHER -> TRUE

\* the predicate of the memo filteredProducts
matchesFilters(p, props) ==
  LET matchesSearch ==
        \/ includes(toLowerCase(p.name), toLowerCase(props.searchTerm))
        \/ includes(toLowerCase(p.category), toLowerCase(props.searchTerm))
        \/ /\ p.description # << >>
           /\ includes(toLowerCase(p.description), toLowerCase(props.searchTerm))
      matchesCategory ==
        props.filterCategory = AllCategories \/ p.category = props.filterCategory
      matchesStatus ==
        CASE props.filterStatus = "active" -> p.stock > 0
          [] props.filterStatus = "inactive" -> p.stock = 0
          [] OTHER -> TRUE
  IN  /\ matchesSearch
      /\ matchesCategory
      /\ matchesStockLevel(p, props.filterStockLevel)
      /\ matchesStatus
      /\ matchesDateRange(p, props.dateRange)

\* getStockStatusText of the table
getStockStatusText(p) ==
  IF p.stock = 0 THEN "Rupture"
  ELSE IF p.stock <= p.minStock THEN "Faible"
  ELSE "OK"

\* the stock status the sort on the stock column compares
stockStatus(p) == IF p.stock = 0 THEN 0 ELSE IF p.stock <= p.minStock THEN 1 ELSE 2

\* the comparator of the memo sortedProducts: negative, zero or positive
compareProducts(a, b, sortField, sortDirection) ==
  IF sortField = "stock"
  THEN IF sortDirection = "asc" THEN stockStatus(a) - stockStatus(b)
       ELSE stockStatus(b) - stockStatus(a)
  ELSE LET isString == sortField \in {"name", "category"}
           aValue == IF isString THEN toLowerCase(a[sortField]) ELSE a[sortField]
           bValue == IF isString THEN toLowerCase(b[sortField]) ELSE b[sortField]
           aLess == IF isString THEN stringLess(aValue, bValue) ELSE aValue < bValue
           bLess == IF isString THEN stringLess(bValue, aValue) ELSE bValue < aValue
       IN  IF sortDirection = "asc"
           THEN IF aLess THEN 0 - 1 ELSE IF bLess THEN 1 ELSE 0
           ELSE IF bLess THEN 0 - 1 ELSE IF aLess THEN 1 ELSE 0

\* one step of the stable sort: e goes before the first element it sorts
\* strictly before
RECURSIVE insertProduct(_, _, _, _)
insertProduct(sorted, e, sortField, sortDirection) ==
  IF sorted = << >> THEN <<e>>
  ELSE IF compareProducts(e, Head(sorted), sortField, sortDirection) < 0
       THEN <<e>> \o sorted
       ELSE <<Head(sorted)>>
            \o insertProduct(Tail(sorted), e, sortField, sortDirection)

\* [...filteredProducts].sort(comparator)
RECURSIVE sortProducts(_, _, _)
sortProducts(list, sortField, sortDirection) ==
  IF list = << >> THEN << >>
  ELSE insertProduct(
         sortProducts(SubSeq(list, 1, Len(list) - 1), sortField, sortDirection),
         list[Len(list)], sortField, sortDirection)

\* slice with its end index included
slice_EndIncluded(list, startIndex, endIndex) ==
  LET last == IF endIndex + 1 < Len(list) THEN endIndex + 1 ELSE Len(list)
  IN  SubSeq(list, startIndex + 1, last)

\* Array.prototype.slice(startIndex, endIndex), both indexes >= 0
slice(list, startIndex, endIndex) ==
  LET last == IF endIndex < Len(list) THEN endIndex ELSE Len(list)
  IN  SubSeq(list, startIndex + 1, last)

\* Math.ceil(n / d) of two naturals, d > 0
ceilDiv(n, d) == (n + d - 1) \div d

\* the hook: its four memos
useFilteredProducts(props) ==
  LET filtered == SelectSeq(props.products,
                            LAMBDA product_ : matchesFilters(product_, props))
      sorted == sortProducts(filtered, props.sortField, props.sortDirection)
      startIndex == (props.currentPage - 1) * props.itemsPerPage
      endIndex == startIndex + props.itemsPerPage
  IN  [filteredProducts |-> filtered,
       sortedProducts |-> sorted,
       paginatedProducts |-> slice(sorted, startIndex, endIndex),
       totalPages |-> ceilDiv(Len(sorted), props.itemsPerPage)]

\* the props of the hook when StockModule mounts with no saved view state
DefaultProps ==
  [products |-> << >>, searchTerm |-> << >>, filterCategory |-> AllCategories,
   filterStockLevel |-> "all", filterStatus |-> "all",
   dateRange |-> [start |-> << >>, end |-> << >>], sortField |-> "name", sortDirection |-> "asc",
   currentPage |-> 1, itemsPerPage |-> 25]

\* ------------------------------------------------------ editing a product
\* Numbers handed to the repository are JavaScript numbers that may be NaN.
NumericFields == {"price", "stock", "initialStock", "minStock", "quantitySold"}

\* the edit form of the stock screen before a product is put in it
NoEditForm ==
  [name |-> << >>, category |-> << >>, price |-> << >>, stock |-> << >>,
   initialStock |-> << >>, minStock |-> << >>, description |-> << >>]

\* the effect that fills the edit form from editingProduct
editFormOf(p) ==
  [name |-> p.name,
   category |-> p.category,
   price |-> numberToString(p.price),
   stock |-> numberToString(p.stock),
   initialStock |-> numberToString(IF p.initialStock # 0 THEN p.initialStock ELSE 0),
   minStock |-> numberToString(p.minStock),
   description |-> p.description]

\* the updates handleEditProduct builds from the form
editFormUpdates(form) ==
  [name |-> trim(form.name),
   category |-> trim(form.category),
   price |-> parseFloat(form.price),
   initialStock |-> parseInt(form.initialStock),
   stock |-> parseInt(form.stock),
   minStock |-> parseInt(form.minStock),
   description |-> trim(form.description)]

\* the updates handleInitialStockChange builds
initialStockUpdates(p, newInitialStock) ==
  LET quantitySold == p.quantitySold
      newCurrentStock == Max(0, newInitialStock - quantitySold)
  IN  [initialStock |-> <<newInitialStock>>, stock |-> <<newCurrentStock>>]

\* the state the modal's formData starts in, and is reset to for a new
\* product
newFormData(today) ==
  [name |-> << >>, category |-> << >>, price |-> <<0>>, stock |-> <<0>>,
   initialStock |-> <<0>>, initialStockDate |-> today, minStock |-> <<0>>,
   description |-> << >>]

\* the effect that resets the modal's formData when its product changes
formDataOf(p, today) ==
  [name |-> p.name,
   category |-> p.category,
   price |-> <<p.price>>,
   stock |-> <<p.stock>>,
   initialStock |-> numberOr(<<p.initialStock>>, <<p.stock>>),
   initialStockDate |-> IF p.initialStockDate # << >> THEN p.initialStockDate
                        ELSE today,
   minStock |-> <<p.minStock>>,
   description |-> p.description]

\* the effect that computes hasChanges, which enables the save button
hasChanges(formData, p, isNewProduct, today) ==
  IF p = << >>
  THEN /\ isNewProduct
       /\ \/ trim(formData.name) # << >>
          \/ trim(formData.category) # << >>
          \/ formData.price # <<0>>
          \/ formData.initialStock # <<0>>
  ELSE \/ formData.name # p[1].name
       \/ formData.category # p[1].category
       \/ formData.price # <<p[1].price>>
       \/ formData.initialStock # numberOr(<<p[1].initialStock>>, <<p[1].stock>>)
       \/ formData.initialStockDate #
            (IF p[1].initialStockDate # << >> THEN p[1].initialStockDate
             ELSE today)
       \/ formData.minStock # <<p[1].minStock>>
       \/ formData.description # p[1].description

\* validateForm: the errors it records, one per failing field (the text of
\* each message is left out)
validateForm(formData) ==
  LET failing ==
        { f \in {"name", "category"} : trim(formData[f]) = << >> }
        \cup { f \in {"price", "initialStock", "minStock"} :
                 numberLess(formData[f], <<0>>) }
        \cup { f \in {"initialStockDate"} : formData[f] = << >> }
  IN  [f \in failing |-> "error"]

\* { ...product, ...formData }, the numbers of the product written as the
\* numbers that may be NaN
productToSave(p, formData, isNewProduct) ==
  IF isNewProduct \/ p = << >> THEN formData
  ELSE [f \in DOMAIN p[1] \cup DOMAIN formData |->
          IF f \in DOMAIN formData THEN formData[f]
          ELSE IF f \in NumericFields THEN <<p[1][f]>>
          ELSE p[1][f]]

\* ---------------------------------------------------------------- actions
NoCall == [op |-> "none", targetDate |-> << >>, val |-> NoResult]
NoStats == [op |-> "none", val |-> << >>]
NoDateRange == [start |-> << >>, end |-> << >>]
NoModal == [open |-> FALSE]
NoWrite == [by |-> "none"]
NoRangeRet == [op |-> "none"]
NoDeleteCall == [callback |-> "none", outcome |-> "none"]
NoSyncResult == << >>
NoHook == [op |-> "none"]
NoSyncCalls == [outstanding |-> 0, settled |-> "none"]

\* nothing being edited
EditIdle ==
  /\ editingProduct = << >>
  /\ editForm = NoEditForm
  /\ modal = NoModal
  /\ written = NoWrite

\* useFilteredProducts not called
HookIdle ==
  /\ hookProps = DefaultProps
  /\ hook = NoHook

\* no save of the view state scheduled
SaveIdle ==
  /\ sorting = [sortField |-> "name", sortDirection |-> "asc"]
  /\ activeTab = "list"
  /\ timeouts = {}
  /\ updateStateCalls = << >>

\* no filter called, the StockModule screen not mounted
UiIdle ==
  /\ rangeRet = NoRangeRet
  /\ screen = "none"
  /\ searchTerm = << >>
  /\ currentPage = 1
  /\ itemsPerPage = 25
  /\ selectedProducts = {}
  /\ showDeleteModal = FALSE
  /\ isDeleting = FALSE
  /\ deleteCall = NoDeleteCall
  /\ showSyncModal = FALSE
  /\ isSyncing = FALSE
  /\ syncResult = NoSyncResult
  /\ syncCalls = NoSyncCalls
  /\ HookIdle
  /\ SaveIdle

Init ==
  /\ product \in Product
  /\ registerSales \in Ledgers
  /\ ret = NoCall
  /\ filteredProducts = << >>
  /\ stats = NoStats
  /\ products = << >>
  /\ dateRange = NoDateRange
  /\ enhanced = << >>
  /\ EditIdle
  /\ UiIdle

CallStockFinal ==
  /\ ret' = [op |-> "calculateStockFinal", targetDate |-> << >>,
             val |-> [NoResult EXCEPT !.stock = calculateStockFinal(product, registerSales)]]
  /\ UNCHANGED <<product, registerSales, filteredProducts, stats, products,
                 dateRange, enhanced, editVars, uiVars>>

CallHasEarlySales ==
  /\ ret' = [op |-> "hasEarlySales", targetDate |-> << >>,
             val |-> [NoResult EXCEPT !.flag = hasEarlySales(product, registerSales)]]
  /\ UNCHANGED <<product, registerSales, filteredProducts, stats, products,
                 dateRange, enhanced, editVars, uiVars>>

CallEarlySalesQuantity ==
  /\ ret' = [op |-> "getEarlySalesQuantity", targetDate |-> << >>,
             val |-> [NoResult EXCEPT !.quantitySold = getEarlySalesQuantity(product, registerSales)]]
  /\ UNCHANGED <<product, registerSales, filteredProducts, stats, products,
                 dateRange, enhanced, editVars, uiVars>>

CallHistoricalStock ==
  \E targetDate \in {<< >>} \cup { <<t>> : t \in TargetInstants } :
    /\ ret' = [op |-> "calculateHistoricalStock", targetDate |-> targetDate,
               val |-> calculateHistoricalStock(product, registerSales, targetDate)]
    /\ UNCHANGED <<product, registerSales, filteredProducts, stats, products,
                 dateRange, enhanced, editVars, uiVars>>

Next ==
  \/ CallStockFinal
  \/ CallHasEarlySales
  \/ CallEarlySalesQuantity
  \/ CallHistoricalStock

Spec == Init /\ [][Next]_vars

\* The two aggregators: useStockStatistics on a product list handed to it,
\* and the statistics of the stock screen on its repository, its ledger and
\* its date range.
InitStats ==
  /\ product = CHOOSE p \in Product : TRUE
  /\ ret = NoCall
  /\ stats = NoStats
  /\ enhanced = << >>
  /\ EditIdle
  /\ UiIdle
  /\ \/ /\ filteredProducts \in StatLists
        /\ products = << >>
        /\ registerSales = << >>
        /\ dateRange = NoDateRange
     \/ /\ filteredProducts = << >>
        /\ products \in Catalogs
        /\ registerSales \in ScreenLedgers
        /\ dateRange \in DateRanges

CallUseStockStatistics ==
  /\ stats' = [op |-> "useStockStatistics",
               val |-> useStockStatistics(filteredProducts)]
  /\ UNCHANGED <<product, registerSales, ret, filteredProducts, products,
                 dateRange, enhanced, editVars, uiVars>>

\* one render of the stock screen: the memos enhancedProducts,
\* filteredProducts, filteredSales, productRevenues and statistics, in turn
RenderStatistics ==
  LET memo == screenFilteredProducts(
                enhancedProducts(products, registerSales, dateRange),
                registerSales, dateRange)
      list == memo.returned
      filteredSales == getFilteredSales(registerSales, dateRange)
  IN  /\ enhanced' = memo.enhancedProducts
      /\ filteredProducts' = list
      /\ stats' = [op |-> "statistics",
                   val |-> statistics(list, productRevenues(list, filteredSales))]
      /\ UNCHANGED <<product, registerSales, ret, products, dateRange, editVars,
                     uiVars>>

NextStats ==
  \/ CallUseStockStatistics
  \/ RenderStatistics

SpecStats == InitStats /\ [][NextStats]_vars

\* The two date-range filters: getFilteredSales of the stock screen on a
\* ledger, and the filter of useFilteredProducts on a product that carries a
\* stockHistory, every other filter of the hook left on 'all'.
InitRange ==
  /\ product = CHOOSE p \in Product : TRUE
  /\ ret = NoCall
  /\ filteredProducts = << >>
  /\ stats = NoStats
  /\ enhanced = << >>
  /\ EditIdle
  /\ UiIdle
  /\ dateRange \in DateRanges
  /\ \/ /\ registerSales \in Ledgers
        /\ products = << >>
     \/ /\ registerSales = << >>
        /\ products \in { <<p>> : p \in HistoryProduct }

CallGetFilteredSales ==
  /\ rangeRet' = [op |-> "getFilteredSales",
                  val |-> getFilteredSales(registerSales, dateRange)]
  /\ UNCHANGED <<product, registerSales, ret, filteredProducts, stats,
                 products, dateRange, enhanced, editVars, screen, pageVars,
                 selectVars, syncVars, hookVars, saveVars>>

CallUseFilteredProducts ==
  /\ rangeRet' = [op |-> "useFilteredProducts",
                  val |-> useFilteredProducts(
                            [DefaultProps EXCEPT !.products = products,
                                                 !.dateRange = dateRange]
                          ).filteredProducts]
  /\ UNCHANGED <<product, registerSales, ret, filteredProducts, stats,
                 products, dateRange, enhanced, editVars, screen, pageVars,
                 selectVars, syncVars, hookVars, saveVars>>

NextRange ==
  \/ CallGetFilteredSales
  \/ CallUseFilteredProducts

SpecRange == InitRange /\ [][NextRange]_vars

\* One render of StockModule on a list of products: useFilteredProducts, then
\* useStockStatistics on its filteredProducts.  The props vary one group at a
\* time around the values the screen mounts with: the sort, or the page and
\* its size, or the stock-level filter.
InitHook ==
  /\ product = CHOOSE p \in Product : TRUE
  /\ registerSales = << >>
  /\ ret = NoCall
  /\ filteredProducts = << >>
  /\ stats = NoStats
  /\ products = << >>
  /\ dateRange = NoDateRange
  /\ enhanced = << >>
  /\ EditIdle
  /\ rangeRet = NoRangeRet
  /\ screen = "none"
  /\ searchTerm = << >>
  /\ currentPage = 1
  /\ itemsPerPage = 25
  /\ selectedProducts = {}
  /\ showDeleteModal = FALSE
  /\ isDeleting = FALSE
  /\ deleteCall = NoDeleteCall
  /\ showSyncModal = FALSE
  /\ isSyncing = FALSE
  /\ syncResult = NoSyncResult
  /\ syncCalls = NoSyncCalls
  /\ SaveIdle
  /\ hook = NoHook
  /\ \E list \in HookLists :
       \/ \E sortField \in SortFields, sortDirection \in {"asc", "desc"} :
            hookProps = [DefaultProps EXCEPT !.products = list,
                                         !.sortField = sortField,
                                         !.sortDirection = sortDirection]
       \/ \E size \in PageSizes, page \in 1..(MaxProducts + 1) :
            hookProps = [DefaultProps EXCEPT !.products = list,
                                         !.itemsPerPage = size,
                                         !.currentPage = page]
       \/ \E level \in {"all", "out", "low", "ok"} :
            hookProps = [DefaultProps EXCEPT !.products = list,
                                         !.filterStockLevel = level]

RenderStockModule ==
  LET returned == useFilteredProducts(hookProps)
  IN  /\ hook' = [op |-> "useFilteredProducts", val |-> returned]
      /\ filteredProducts' = returned.filteredProducts
      /\ stats' = [op |-> "useStockStatistics",
                   val |-> useStockStatistics(returned.filteredProducts)]
      /\ UNCHANGED <<product, registerSales, ret, products, dateRange, enhanced,
                     editVars, rangeRet, screen, pageVars, selectVars, syncVars,
                     hookProps, saveVars>>

NextHook == RenderStockModule

SpecHook == InitHook /\ [][NextHook]_vars

\* ------------------------------------------------- the StockModule screen
\* The repository the screen is mounted on: products of a full stock, no
\* threshold, nothing sold.
ModuleCatalogs ==
  { c \in Catalogs :
      \A i \in 1..Len(c) : c[i].minStock = 0 /\ c[i].quantitySold = 0 }

\* what the search field holds: nothing, or the name of the products of odd
\* id
SearchTerms == { << >>, <<"x">> }

Min(a, b) == IF a <= b THEN a ELSE b

idsOf(list) == { list[i].id : i \in 1..Len(list) }

\* what useFilteredProducts returns in the current state of the screen
Hook ==
  useFilteredProducts(
    [DefaultProps EXCEPT !.products = products, !.searchTerm = searchTerm,
                         !.currentPage = currentPage,
                         !.itemsPerPage = itemsPerPage])

\* the rows on the screen: the page of the hook in StockModule; in the stock
\* screen of StockFilters.tsx, mounted with its filters on 'all' and its
\* page of 50, every product of the repository
Rows == IF screen = "StockModule" THEN idsOf(Hook.paginatedProducts)
        ELSE idsOf(products)

\* the list the button 'select all the filtered products' selects
FilteredRows == IF screen = "StockModule" THEN idsOf(Hook.sortedProducts)
                ELSE idsOf(products)

\* the delete and the sync modals are full-screen overlays: while one is
\* open, only its own buttons can be clicked
NoOverlay == ~showDeleteModal /\ ~showSyncModal

InitModule ==
  /\ product = CHOOSE p \in Product : TRUE
  /\ registerSales = << >>
  /\ ret = NoCall
  /\ filteredProducts = << >>
  /\ stats = NoStats
  /\ dateRange = NoDateRange
  /\ enhanced = << >>
  /\ EditIdle
  /\ rangeRet = NoRangeRet
  /\ products \in ModuleCatalogs
  /\ screen \in {"StockModule", "StockFilters"}
  /\ searchTerm = << >>
  /\ currentPage = 1
  /\ itemsPerPage \in IF screen = "StockModule" THEN PageSizes ELSE {50}
  /\ selectedProducts = {}
  /\ showDeleteModal = FALSE
  /\ isDeleting = FALSE
  /\ deleteCall = NoDeleteCall
  /\ showSyncModal = FALSE
  /\ isSyncing = FALSE
  /\ syncResult = NoSyncResult
  /\ syncCalls = NoSyncCalls
  /\ HookIdle
  /\ SaveIdle

otherVars ==
  <<product, registerSales, ret, filteredProducts, stats, dateRange, enhanced,
    editVars, rangeRet, screen, hookVars, saveVars>>

\* the search field
SetSearchTerm ==
  \E value \in SearchTerms :
    /\ screen = "StockModule"
    /\ NoOverlay
    /\ searchTerm' = value
    /\ UNCHANGED <<products, currentPage, itemsPerPage, selectVars, syncVars,
                   otherVars>>

\* clearFilters; its button shows when a filter is active
ClearFilters ==
  /\ screen = "StockModule"
  /\ NoOverlay
  /\ searchTerm # << >>
  /\ searchTerm' = << >>
  /\ currentPage' = 1
  /\ UNCHANGED <<products, itemsPerPage, selectVars, syncVars, otherVars>>

HandleItemsPerPageChange ==
  \E value \in PageSizes :
    /\ screen = "StockModule"
    /\ NoOverlay
    /\ itemsPerPage' = value
    /\ currentPage' = 1
    /\ UNCHANGED <<products, searchTerm, selectVars, syncVars, otherVars>>

\* goToPage from the buttons of the pagination bar, shown when there are
\* several pages: previous (disabled on page 1), next (disabled on the last
\* page) and one button per page
GoToPage ==
  \E page \in {currentPage - 1, currentPage + 1} \cup 1..Hook.totalPages :
    /\ screen = "StockModule"
    /\ NoOverlay
    /\ Hook.totalPages > 1
    /\ page = currentPage - 1 => currentPage # 1
    /\ page = currentPage + 1 => currentPage # Hook.totalPages
    /\ currentPage' = Max(1, Min(page, Hook.totalPages))
    /\ UNCHANGED <<products, searchTerm, itemsPerPage, selectVars, syncVars,
                   otherVars>>

\* the check box of a row
ToggleSelectProduct ==
  \E productId \in Rows :
    /\ NoOverlay
    /\ selectedProducts' = IF productId \in selectedProducts
                           THEN selectedProducts \ {productId}
                           ELSE selectedProducts \cup {productId}
    /\ UNCHANGED <<products, pageVars, showDeleteModal, isDeleting, deleteCall,
                   syncVars, otherVars>>

\* the check box of the table header
ToggleSelectAll ==
  /\ screen = "StockModule"
  /\ NoOverlay
  /\ selectedProducts' =
       IF Cardinality(selectedProducts) = Len(Hook.paginatedProducts)
       THEN {}
       ELSE idsOf(Hook.paginatedProducts)
  /\ UNCHANGED <<products, pageVars, showDeleteModal, isDeleting, deleteCall,
                 syncVars, otherVars>>

\* selectAllFiltered; its button shows when some but not all the filtered
\* products are selected
SelectAllFiltered ==
  /\ NoOverlay
  /\ Cardinality(selectedProducts) > 0
  /\ Cardinality(selectedProducts) < Cardinality(FilteredRows)
  /\ selectedProducts' = FilteredRows
  /\ UNCHANGED <<products, pageVars, showDeleteModal, isDeleting, deleteCall,
                 syncVars, otherVars>>

\* the button that drops the selection
CancelSelection ==
  /\ NoOverlay
  /\ Cardinality(selectedProducts) > 0
  /\ selectedProducts' = {}
  /\ UNCHANGED <<products, pageVars, showDeleteModal, isDeleting, deleteCall,
                 syncVars, otherVars>>

\* the delete button of a row
HandleDeleteProduct ==
  \E productId \in Rows :
    /\ NoOverlay
    /\ selectedProducts' = {productId}
    /\ showDeleteModal' = TRUE
    /\ UNCHANGED <<products, pageVars, isDeleting, deleteCall, syncVars,
                   otherVars>>

\* the delete button of the selection bar, shown when the selection is not
\* empty
HandleBatchDelete ==
  /\ NoOverlay
  /\ Cardinality(selectedProducts) > 0
  /\ showDeleteModal' = TRUE
  /\ UNCHANGED <<products, pageVars, selectedProducts, isDeleting, deleteCall,
                 syncVars, otherVars>>

\* the cancel button of the delete modal, disabled while deleting
CancelDelete ==
  /\ showDeleteModal
  /\ ~isDeleting
  /\ showDeleteModal' = FALSE
  /\ UNCHANGED <<products, pageVars, selectedProducts, isDeleting, deleteCall,
                 syncVars, otherVars>>

\* confirmDelete of StockModule, up to its await; its button is disabled
\* while deleting
ConfirmDelete ==
  /\ screen = "StockModule"
  /\ showDeleteModal
  /\ ~isDeleting
  /\ Cardinality(selectedProducts) # 0
  /\ isDeleting' = TRUE
  /\ deleteCall' =
       IF Cardinality(selectedProducts) = 1
       THEN [callback |-> "onDeleteProduct", ids |-> selectedProducts]
       ELSE [callback |-> "onDeleteProducts", ids |-> selectedProducts]
  /\ UNCHANGED <<products, pageVars, selectedProducts, showDeleteModal,
                 syncVars, otherVars>>

\* handleDeleteProducts of the stock screen of StockFilters.tsx, up to its
\* await
HandleDeleteProducts ==
  /\ screen = "StockFilters"
  /\ showDeleteModal
  /\ ~isDeleting
  /\ Cardinality(selectedProducts) # 0
  /\ isDeleting' = TRUE
  /\ deleteCall' = [callback |-> "onDeleteProducts", ids |-> selectedProducts]
  /\ UNCHANGED <<products, pageVars, selectedProducts, showDeleteModal,
                 syncVars, otherVars>>

\* The ways a delete callback settles: onDeleteProduct resolves or rejects,
\* onDeleteProducts resolves to true or to false, or rejects.
DeleteOutcomes(call) ==
  CASE call.callback = "onDeleteProduct" -> {"resolved", "rejected"}
    [] call.callback = "onDeleteProducts" -> {"true", "false", "rejected"}
    [] OTHER -> {}

\* the awaited delete callback settles and the handler runs to its end.  A
\* deletion that succeeded has removed the products from the repository.
DeleteSettles ==
  \E outcome \in DeleteOutcomes(deleteCall) :
    LET succeeded == outcome \in {"resolved", "true"}
        \* confirmDelete goes on after any resolution; handleDeleteProducts
        \* tests the value resolved
        goesOn == IF screen = "StockModule" THEN outcome # "rejected"
                  ELSE outcome = "true"
    IN  /\ deleteCall.callback # "none"
        /\ deleteCall' = [callback |-> "none", outcome |-> outcome]
        /\ products' = IF succeeded
                       THEN SelectSeq(products,
                                      LAMBDA p : p.id \notin deleteCall.ids)
                       ELSE products
        /\ selectedProducts' = IF goesOn THEN {} ELSE selectedProducts
        /\ showDeleteModal' = IF goesOn THEN FALSE ELSE showDeleteModal
        /\ isDeleting' = FALSE
        /\ UNCHANGED <<pageVars, syncVars, otherVars>>

\* the button that opens the auto-sync modal
OpenSyncModal ==
  /\ screen = "StockModule"
  /\ NoOverlay
  /\ showSyncModal' = TRUE
  /\ UNCHANGED <<products, pageVars, selectVars, isSyncing, syncResult,
                 syncCalls, otherVars>>

\* handleAutoSync, up to its await; its button shows while there is no
\* result and is disabled while syncing
HandleAutoSync ==
  /\ showSyncModal
  /\ syncResult = NoSyncResult
  /\ ~isSyncing
  /\ isSyncing' = TRUE
  /\ syncResult' = NoSyncResult
  /\ syncCalls' = [syncCalls EXCEPT !.outstanding = @ + 1]
  /\ UNCHANGED <<products, pageVars, selectVars, showSyncModal, otherVars>>

\* the awaited autoSyncProductsFromSales settles and handleAutoSync runs to
\* its end
SyncSettles ==
  \E resolved \in BOOLEAN :
    /\ syncCalls.outstanding > 0
    /\ syncCalls' = [outstanding |-> syncCalls.outstanding - 1,
                     settled |-> IF resolved THEN "resolved" ELSE "rejected"]
    /\ syncResult' = <<[success |-> resolved]>>
    /\ isSyncing' = FALSE
    /\ UNCHANGED <<products, pageVars, selectVars, showSyncModal, otherVars>>

\* the cancel button of the sync modal, not disabled while syncing
CancelSync_WhileSyncing ==
  /\ showSyncModal
  /\ syncResult = NoSyncResult
  /\ showSyncModal' = FALSE
  /\ UNCHANGED <<products, pageVars, selectVars, isSyncing, syncResult,
                 syncCalls, otherVars>>

\* the cancel button of the sync modal, shown while there is no result and
\* disabled while syncing
CancelSync ==
  /\ showSyncModal
  /\ syncResult = NoSyncResult
  /\ ~isSyncing
  /\ showSyncModal' = FALSE
  /\ UNCHANGED <<products, pageVars, selectVars, isSyncing, syncResult,
                 syncCalls, otherVars>>

\* the close button of the result of a sync
CloseSyncResult ==
  /\ showSyncModal
  /\ syncResult # NoSyncResult
  /\ showSyncModal' = FALSE
  /\ syncResult' = NoSyncResult
  /\ UNCHANGED <<products, pageVars, selectVars, isSyncing, syncCalls,
                 otherVars>>

NextModule ==
  \/ SetSearchTerm
  \/ ClearFilters
  \/ HandleItemsPerPageChange
  \/ GoToPage
  \/ ToggleSelectProduct
  \/ ToggleSelectAll
  \/ SelectAllFiltered
  \/ CancelSelection
  \/ HandleDeleteProduct
  \/ HandleBatchDelete
  \/ CancelDelete
  \/ ConfirmDelete
  \/ HandleDeleteProducts
  \/ DeleteSettles
  \/ OpenSyncModal
  \/ HandleAutoSync
  \/ SyncSettles
  \/ CancelSync
  \/ CloseSyncResult

SpecModule == InitModule /\ [][NextModule]_vars

\* ------------------------------------------- the saving of the view state
\* Both stock screens save their view state from an effect on searchTerm,
\* currentPage, itemsPerPage, sortField, sortDirection and activeTab: the
\* effect sets a timeout whose callback calls updateState with the values of
\* the render it ran in, and its cleanup clears that timeout.  A handler
\* called from a user event is one step here with the render it causes: the
\* cleanup of the effect and the effect itself run in that step when one of
\* the six values changed, and not at all otherwise.

\* the six values the effect depends on
ViewFields ==
  [searchTerm |-> searchTerm, currentPage |-> currentPage,
   itemsPerPage |-> itemsPerPage, sortField |-> sorting.sortField,
   sortDirection |-> sorting.sortDirection, activeTab |-> activeTab]

\* the pages the pagination bar offers
MaxPage == 2

\* the effect without the clearTimeout of its cleanup
SaveEffect_NoClearTimeout ==
  IF ViewFields' # ViewFields
  THEN /\ timeouts' = timeouts \cup {ViewFields'}
       /\ updateStateCalls' = << >>
  ELSE UNCHANGED <<timeouts, updateStateCalls>>

\* the cleanup and the effect after a render
SaveEffect ==
  IF ViewFields' # ViewFields
  THEN /\ timeouts' = {ViewFields'}
       /\ updateStateCalls' = << >>
  ELSE UNCHANGED <<timeouts, updateStateCalls>>

saveOtherVars ==
  <<product, registerSales, ret, filteredProducts, stats, products, dateRange,
    enhanced, editVars, rangeRet, selectVars, syncVars, hookVars>>

\* the screen mounted with its defaults, the effect run once
InitSave ==
  /\ product = CHOOSE p \in Product : TRUE
  /\ registerSales = << >>
  /\ ret = NoCall
  /\ filteredProducts = << >>
  /\ stats = NoStats
  /\ products = << >>
  /\ dateRange = NoDateRange
  /\ enhanced = << >>
  /\ EditIdle
  /\ rangeRet = NoRangeRet
  /\ screen \in {"StockModule", "StockFilters"}
  /\ searchTerm = << >>
  /\ currentPage = 1
  /\ itemsPerPage \in PageSizes
  /\ selectedProducts = {}
  /\ showDeleteModal = FALSE
  /\ isDeleting = FALSE
  /\ deleteCall = NoDeleteCall
  /\ showSyncModal = FALSE
  /\ isSyncing = FALSE
  /\ syncResult = NoSyncResult
  /\ syncCalls = NoSyncCalls
  /\ HookIdle
  /\ sorting = [sortField |-> "name", sortDirection |-> "asc"]
  /\ activeTab = "list"
  /\ timeouts = {ViewFields}
  /\ updateStateCalls = << >>

\* typing in the search field
TypeSearchTerm ==
  \E value \in SearchTerms :
    /\ screen # "none"
    /\ searchTerm' = value
    /\ UNCHANGED <<currentPage, itemsPerPage, sorting, activeTab, screen,
                   saveOtherVars>>
    /\ SaveEffect

\* clearFilters: the search emptied, back to page 1
ResetSearchAndPage ==
  /\ screen # "none"
  /\ searchTerm' = << >>
  /\ currentPage' = 1
  /\ UNCHANGED <<itemsPerPage, sorting, activeTab, screen, saveOtherVars>>
  /\ SaveEffect

\* handleItemsPerPageChange
SelectItemsPerPage ==
  \E value \in PageSizes :
    /\ screen # "none"
    /\ itemsPerPage' = value
    /\ currentPage' = 1
    /\ UNCHANGED <<searchTerm, sorting, activeTab, screen, saveOtherVars>>
    /\ SaveEffect

\* goToPage, on a list of MaxPage pages
ShowPage ==
  \E page \in 1..MaxPage :
    /\ screen # "none"
    /\ currentPage' = page
    /\ UNCHANGED <<searchTerm, itemsPerPage, sorting, activeTab, screen,
                   saveOtherVars>>
    /\ SaveEffect

\* handleSort: the same column flips the direction, another column sorts
\* ascending
HandleSort ==
  \E field \in SortFields :
    /\ screen # "none"
    /\ sorting' = IF sorting.sortField = field
                  THEN [sorting EXCEPT !.sortDirection =
                          IF @ = "asc" THEN "desc" ELSE "asc"]
                  ELSE [sortField |-> field, sortDirection |-> "asc"]
    /\ UNCHANGED <<searchTerm, currentPage, itemsPerPage, activeTab, screen,
                   saveOtherVars>>
    /\ SaveEffect

\* the two tab buttons
SetActiveTab ==
  \E tab \in {"list", "import"} :
    /\ screen # "none"
    /\ activeTab' = tab
    /\ UNCHANGED <<searchTerm, currentPage, itemsPerPage, sorting, screen,
                   saveOtherVars>>
    /\ SaveEffect

\* the callback of a pending timeout
TimeoutFires(closure) ==
  /\ closure \in timeouts
  /\ timeouts' = timeouts \ {closure}
  /\ updateStateCalls' = Append(updateStateCalls, closure)
  /\ UNCHANGED <<searchTerm, currentPage, itemsPerPage, sorting, activeTab,
                 screen, saveOtherVars>>

\* the screen unmounts: the cleanup of the effect clears the timeout
Unmount ==
  /\ screen # "none"
  /\ screen' = "none"
  /\ timeouts' = {}
  /\ UNCHANGED <<searchTerm, currentPage, itemsPerPage, sorting, activeTab,
                 updateStateCalls, saveOtherVars>>

\* the screen mounts again: its state starts from the view state it is
\* handed, and the effect runs
Mount ==
  \E mounted \in {"StockModule", "StockFilters"}, term \in SearchTerms,
     page \in 1..MaxPage, size \in PageSizes, field \in SortFields,
     direction \in {"asc", "desc"}, tab \in {"list", "import"} :
    /\ screen = "none"
    /\ screen' = mounted
    /\ searchTerm' = term
    /\ currentPage' = page
    /\ itemsPerPage' = size
    /\ sorting' = [sortField |-> field, sortDirection |-> direction]
    /\ activeTab' = tab
    /\ timeouts' = {ViewFields'}
    /\ updateStateCalls' = << >>
    /\ UNCHANGED saveOtherVars

\* every value the six fields take
AllViewFields ==
  [searchTerm : SearchTerms, currentPage : 1..MaxPage,
   itemsPerPage : PageSizes, sortField : SortFields,
   sortDirection : {"asc", "desc"}, activeTab : {"list", "import"}]

NextSave ==
  \/ TypeSearchTerm
  \/ ResetSearchAndPage
  \/ SelectItemsPerPage
  \/ ShowPage
  \/ HandleSort
  \/ SetActiveTab
  \/ \E closure \in timeouts : TimeoutFires(closure)
  \/ Unmount
  \/ Mount

SpecSave == InitSave /\ [][NextSave]_vars

\* a timeout that stays pending fires: the event loop runs its callback once
\* the delay has passed
SpecSaveFair ==
  SpecSave /\ \A closure \in AllViewFields : WF_vars(TimeoutFires(closure))

\* Editing a product: the inline initial-stock field and the edit form of
\* the stock screen, and the product edit modal.  A handler touches only the
\* product it is called on: the repository holds that product, or none.
InitEdit ==
  /\ product = CHOOSE p \in Product : TRUE
  /\ registerSales = << >>
  /\ ret = NoCall
  /\ filteredProducts = << >>
  /\ stats = NoStats
  /\ dateRange = NoDateRange
  /\ enhanced = << >>
  /\ products \in { c \in Catalogs : Len(c) <= 1 }
  /\ EditIdle
  /\ UiIdle

engineAndStatsVars ==
  <<product, registerSales, ret, filteredProducts, stats, dateRange, enhanced,
    uiVars>>

\* The stock screen with its edit form (StockFilters.tsx) and the stock
\* screen with the product edit modal (StockModule.tsx) are two screens: one
\* editor is open at a time, and a write handed to the repository is awaited
\* before the next one.

\* what a number field holds after the user typed in it: nothing, 0, -1 or
\* MaxStock
NumberInputs ==
  { << >>, numberToString(0), numberToString(0 - 1), numberToString(MaxStock) }

\* the inline field of the table: handleInitialStockChange(product.id,
\* parseInt(e.target.value) || 0), up to its await
HandleInitialStockChange ==
  \E i \in 1..Len(products), value \in NumberInputs :
    LET newInitialStock == numberOr(parseInt(value), <<0>>)[1]
    IN  /\ editingProduct = << >>
        /\ modal = NoModal
        /\ written = NoWrite
        /\ written' = [by |-> "handleInitialStockChange",
                       call |-> "onUpdateProduct", id |-> products[i].id,
                       updates |-> initialStockUpdates(products[i], newInitialStock)]
        /\ UNCHANGED <<products, editingProduct, editForm, modal,
                       engineAndStatsVars>>

\* the edit button of a row of the stock screen, and the effect that fills
\* the form
StartEditing ==
  \E i \in 1..Len(products) :
    /\ editingProduct = << >>
    /\ modal = NoModal
    /\ written = NoWrite
    /\ editingProduct' = <<products[i]>>
    /\ editForm' = editFormOf(products[i])
    /\ UNCHANGED <<products, modal, written, engineAndStatsVars>>

\* the user types in the initialStock or in the stock field of the form
TypeInEditForm ==
  \E field \in {"initialStock", "stock"}, value \in NumberInputs :
    /\ editingProduct # << >>
    /\ editForm' = [editForm EXCEPT ![field] = value]
    /\ UNCHANGED <<products, editingProduct, modal, written, engineAndStatsVars>>

\* the cancel button of the form
CancelEditing ==
  /\ editingProduct # << >>
  /\ written = NoWrite
  /\ editingProduct' = << >>
  /\ UNCHANGED <<products, editForm, modal, written, engineAndStatsVars>>

\* handleEditProduct of the stock screen, up to its await; its button is
\* disabled while a write is awaited (isUpdating)
HandleEditProduct ==
  /\ editingProduct # << >>
  /\ written = NoWrite
  /\ written' = [by |-> "handleEditProduct", call |-> "onUpdateProduct",
                 id |-> editingProduct[1].id,
                 updates |-> editFormUpdates(editForm)]
  /\ UNCHANGED <<products, editingProduct, editForm, modal, engineAndStatsVars>>

\* handleEditProduct of StockModule opens the modal on a product, and the
\* modal's effect resets its form
OpenEditModal ==
  \E i \in 1..Len(products), today \in TodayDates :
    /\ editingProduct = << >>
    /\ editForm = NoEditForm
    /\ modal = NoModal
    /\ written = NoWrite
    /\ modal' = [open |-> TRUE, product |-> <<products[i]>>,
                 isNewProduct |-> FALSE, today |-> today,
                 formData |-> formDataOf(products[i], today),
                 errors |-> << >>]
    /\ UNCHANGED <<products, editingProduct, editForm, written,
                   engineAndStatsVars>>

\* handleCreateProduct opens the modal on a new product
HandleCreateProduct ==
  \E today \in TodayDates :
    /\ editingProduct = << >>
    /\ editForm = NoEditForm
    /\ modal = NoModal
    /\ written = NoWrite
    /\ modal' = [open |-> TRUE, product |-> << >>, isNewProduct |-> TRUE,
                 today |-> today, formData |-> newFormData(today),
                 errors |-> << >>]
    /\ UNCHANGED <<products, editingProduct, editForm, written,
                   engineAndStatsVars>>

\* what the user can put in a field of the modal: the name blank or not,
\* the category and the date cleared, the numbers parsed from what was typed
ModalInputs ==
  { <<"name", v>> : v \in { <<" ">>, <<"W">> } }
  \cup { <<"category", << >> >> }
  \cup { <<"price", parseFloat(numberToString(0 - 1))>> }
  \cup { <<"initialStock", parseInt(v)>> : v \in NumberInputs }
  \cup { <<"minStock", parseInt(numberToString(0 - 1))>> }
  \cup { <<"initialStockDate", << >> >> }

\* handleInputChange(field, value)
HandleInputChange ==
  \E input \in ModalInputs :
    LET field == input[1]
        value == input[2]
    IN  /\ modal # NoModal
        /\ written = NoWrite
        /\ modal' = [modal EXCEPT
                       !.formData = [modal.formData EXCEPT ![field] = value],
                       !.errors = IF field \in DOMAIN modal.errors
                                     /\ modal.errors[field] # ""
                                  THEN [modal.errors EXCEPT ![field] = ""]
                                  ELSE modal.errors]
        /\ UNCHANGED <<products, editingProduct, editForm, written,
                       engineAndStatsVars>>

\* the close button of the modal, which unmounts it
CloseModal ==
  /\ modal # NoModal
  /\ written = NoWrite
  /\ modal' = NoModal
  /\ UNCHANGED <<products, editingProduct, editForm, written, engineAndStatsVars>>

\* handleSave of the modal, behind a button enabled by hasChanges, and
\* handleSaveProduct of StockModule it calls through onSave, up to its await
HandleSave ==
  LET newErrors == validateForm(modal.formData)
      productData == productToSave(modal.product, modal.formData,
                                   modal.isNewProduct)
  IN  /\ modal # NoModal
      /\ written = NoWrite
      /\ hasChanges(modal.formData, modal.product, modal.isNewProduct,
                    modal.today)
      /\ modal' = [modal EXCEPT !.errors = newErrors]
      /\ IF DOMAIN newErrors # {}
         THEN UNCHANGED written
         ELSE written' =
                IF "id" \in DOMAIN productData
                THEN [by |-> "handleSave", call |-> "onUpdateProduct",
                      id |-> productData.id, updates |-> productData]
                ELSE [by |-> "handleSave", call |-> "onAddProduct",
                      updates |-> productData]
      /\ UNCHANGED <<products, editingProduct, editForm, engineAndStatsVars>>

\* the awaited write settles: accepted, the editor that made it closes;
\* rejected, it stays open.  The products prop is the repository's to
\* change, not the handlers'.
WriteSettles ==
  \E accepted \in BOOLEAN :
    /\ written # NoWrite
    /\ written' = NoWrite
    /\ editingProduct' = IF accepted /\ written.by = "handleEditProduct"
                         THEN << >> ELSE editingProduct
    /\ modal' = IF accepted /\ written.by = "handleSave" THEN NoModal ELSE modal
    /\ UNCHANGED <<products, editForm, engineAndStatsVars>>

NextEdit ==
  \/ HandleInitialStockChange
  \/ StartEditing
  \/ TypeInEditForm
  \/ CancelEditing
  \/ HandleEditProduct
  \/ OpenEditModal
  \/ HandleCreateProduct
  \/ HandleInputChange
  \/ CloseModal
  \/ HandleSave
  \/ WriteSettles

SpecEdit == InitEdit /\ [][NextEdit]_vars

TypeOK ==
  /\ product \in Product
  /\ registerSales \in Ledgers
  /\ ret.op \in {"none", "calculateStockFinal", "hasEarlySales",
                 "getEarlySalesQuantity", "calculateHistoricalStock"}

\* ------------------------------------------------- vocabulary of the claims
\* The matching rule as the specification words it: lowercase(trim(x)).
Normalize(str) == toLowerCase(trim(str))

Matches(sale, p) ==
  /\ Normalize(sale.product) = Normalize(p.name)
  /\ Normalize(sale.category) = Normalize(p.category)

\* the ledger lines (by position) that belong to the product
Matched == { i \in 1..Len(registerSales) : Matches(registerSales[i], product) }

\* the sum of the quantities of a set of ledger lines
RECURSIVE SumQty(_)
SumQty(I) ==
  IF I = {} THEN 0
  ELSE LET i == CHOOSE x \in I : TRUE
       IN  registerSales[i].quantity + SumQty(I \ {i})

ClampAtZero(n) == IF n < 0 THEN 0 ELSE n

DayOf(t) == t \div TicksPerDay

HasInitialStockDate == product.initialStockDate # << >>

\* the calendar day of the initial stock date, when there is one
InitialDay == product.initialStockDate[1]

\* matched lines dated on or after the day of the initial stock date
OnOrAfterInitial == { i \in Matched : DayOf(registerSales[i].date) >= InitialDay }

\* matched lines dated before the day of the initial stock date
BeforeInitial == { i \in Matched : DayOf(registerSales[i].date) < InitialDay }

\* matched lines dated exactly at the instant of the initial stock date
AtInitialInstant == { i \in Matched : registerSales[i].date = InitialDay * TicksPerDay }

Historical == ret.op = "calculateHistoricalStock" /\ ret.targetDate # << >>

AsOfDay == DayOf(ret.targetDate[1])

\* matched lines dated before the first instant of the day after the as-of day
UpToAsOfDay == { i \in Matched : registerSales[i].date < (AsOfDay + 1) * TicksPerDay }

\* matched lines dated on a day before the as-of day
BeforeAsOfDay == { i \in Matched : DayOf(registerSales[i].date) < AsOfDay }

\* matched lines dated within the as-of day, from its first to its last instant
WithinAsOfDay == { i \in Matched : DayOf(registerSales[i].date) = AsOfDay }

\* the baseline as the specification chooses it
BaseInitial ==
  IF HasInitialStockDate THEN product.initialStock
  ELSE product.stock + product.quantitySold

\* the ledger reduced to the lines that belong to the product, each carrying
\* the product's own name and category
OwnLines ==
  LET kept == SelectSeq(registerSales, LAMBDA sale : Matches(sale, product))
  IN  [i \in 1..Len(kept) |->
         [kept[i] EXCEPT !.product = product.name, !.category = product.category]]

\* ------------------------------------------------------------------ claims

\* C1: a ledger line is treated as a line of the product if and only if
\* lowercase(trim(.)) of its product and category equal those of the
\* product's name and category: each of the four functions returns what it
\* returns on the ledger reduced to those lines, written with the product's
\* own name and category.
C1_MatchingRule ==
  /\ ret.op = "calculateStockFinal" =>
       ret.val.stock = calculateStockFinal(product, OwnLines)
  /\ ret.op = "hasEarlySales" =>
       ret.val.flag = hasEarlySales(product, OwnLines)
  /\ ret.op = "getEarlySalesQuantity" =>
       ret.val.quantitySold = getEarlySalesQuantity(product, OwnLines)
  /\ ret.op = "calculateHistoricalStock" =>
       ret.val = calculateHistoricalStock(product, OwnLines, ret.targetDate)

\* a line " w"/"t " of product "W "/"T" was deducted by calculateStockFinal
\* while a line of another product stood in the ledger
C1_Witness ==
  /\ ret.op = "calculateStockFinal"
  /\ HasInitialStockDate
  /\ \E i \in Matched : /\ registerSales[i].product # product.name
                        /\ registerSales[i].quantity > 0
                        /\ DayOf(registerSales[i].date) >= InitialDay
  /\ \E j \in 1..Len(registerSales) : j \notin Matched
  /\ ret.val.stock < product.initialStock

\* C2: with an initial stock date, the current stock is
\* max(0, initialStock - Q), Q the quantity of the matched lines dated on or
\* after that date; matched lines dated before it are not deducted.
C2_CurrentStockWithDate ==
  (ret.op = "calculateStockFinal" /\ HasInitialStockDate) =>
    ret.val.stock = ClampAtZero(product.initialStock - SumQty(OnOrAfterInitial))

\* the Widget scenario: one line on the date, one the day before, only the
\* first is deducted
C2_Witness ==
  /\ ret.op = "calculateStockFinal"
  /\ HasInitialStockDate
  /\ SumQty(OnOrAfterInitial) > 0
  /\ SumQty(BeforeInitial) > 0
  /\ ret.val.stock = product.initialStock - SumQty(OnOrAfterInitial)

\* C3: without an initial stock date, the current stock is initialStock minus
\* the quantity of all the matched lines, clamped at 0.
C3_CurrentStockNoDate ==
  (ret.op = "calculateStockFinal" /\ ~HasInitialStockDate) =>
    ret.val.stock = ClampAtZero(product.initialStock - SumQty(Matched))

\* C4: with an as-of date, quantitySold is the quantity of the matched lines
\* dated up to the end of the as-of day, the stock is
\* max(0, baseInitial - quantitySold) and isHistorical is true.
C4_HistoricalView ==
  Historical =>
    /\ ret.val.quantitySold = SumQty(UpToAsOfDay)
    /\ ret.val.stock = ClampAtZero(BaseInitial - SumQty(UpToAsOfDay))
    /\ ret.val.flag = TRUE

C6_AsOfDayBoundary ==
  Historical =>
    ret.val.quantitySold = SumQty(BeforeAsOfDay) + SumQty(WithinAsOfDay)

\* one line at the last millisecond of the as-of day, one a millisecond
\* later: quantitySold is the quantity of the first
C6_Witness ==
  /\ Historical
  /\ \E i, j \in Matched :
       /\ registerSales[i].date = (AsOfDay + 1) * TicksPerDay - 1
       /\ registerSales[i].quantity > 0
       /\ registerSales[j].date = (AsOfDay + 1) * TicksPerDay
       /\ registerSales[j].quantity > 0
       /\ ret.val.quantitySold = registerSales[i].quantity

\* C7: a matched line dated exactly at the initial stock date is on or after
\* the baseline: calculateStockFinal deducts it, hasEarlySales is not made
\* true by it and getEarlySalesQuantity does not count it.  Stated on the
\* ledgers whose matched lines are all dated at that instant.
C7_BaselineInstantIsNotEarly ==
  (ret.op # "none" /\ HasInitialStockDate /\ Matched = AtInitialInstant) =>
    /\ ret.op = "calculateStockFinal" =>
         ret.val.stock = ClampAtZero(product.initialStock - SumQty(AtInitialInstant))
    /\ ret.op = "hasEarlySales" => ret.val.flag = FALSE
    /\ ret.op = "getEarlySalesQuantity" => ret.val.quantitySold = 0

\* a line at the initial stock instant was deducted
C7_Witness ==
  /\ ret.op = "calculateStockFinal"
  /\ HasInitialStockDate
  /\ Matched = AtInitialInstant
  /\ SumQty(AtInitialInstant) > 0
  /\ ret.val.stock < product.initialStock

\* C8: hasEarlySales is true if and only if the initial stock date is set
\* and some matched line is dated strictly before it.
C8_HasEarlySalesIff ==
  ret.op = "hasEarlySales" =>
    (ret.val.flag <=> (HasInitialStockDate /\ BeforeInitial # {}))

\* hasEarlySales answered true
C8_Witness ==
  /\ ret.op = "hasEarlySales"
  /\ HasInitialStockDate
  /\ BeforeInitial # {}
  /\ AtInitialInstant # {}
  /\ ret.val.flag = TRUE

\* C9: in the historical computation the baseline is product.initialStock
\* whenever the initial stock date is set, also when initialStock is 0.
C9_BaselineChosenByDate ==
  (Historical /\ HasInitialStockDate) =>
    ret.val.stock = ClampAtZero(product.initialStock - ret.val.quantitySold)

\* C10: with initialStockDate = D and as-of date D, the historical stock is
\* initialStock minus the matched lines dated within day D, clamped at 0;
\* matched lines dated before D are not subtracted.  Stated for the products
\* whose initialStock is not 0, for which the baseline is initialStock
\* whichever way it is chosen (C9).
C10_AsOfInitialDay ==
  (Historical /\ HasInitialStockDate /\ AsOfDay = InitialDay
     /\ product.initialStock > 0) =>
    ret.val.stock = ClampAtZero(product.initialStock - SumQty(WithinAsOfDay))

\* C11 as stated: for the product with initialStock 100 and initialStockDate
\* 2024-01-01, a matched line on 2024-01-01 and a matched line on 2023-12-31,
\* the historical computation as of an earlier day (2023-12-15) yields
\* stock = initialStock and quantitySold = the quantity of the line of
\* 2023-12-31.
WidgetScenario ==
  /\ HasInitialStockDate
  /\ InitialDay = DayOf(TicksPerDay)
  /\ product.initialStock = MaxStock
  /\ Len(registerSales) = 2
  /\ Matched = 1..2
  /\ \E i, j \in Matched :
       /\ DayOf(registerSales[i].date) = InitialDay
       /\ DayOf(registerSales[j].date) = InitialDay - 1
       /\ registerSales[i].quantity > 0
       /\ registerSales[j].quantity > 0

AsOfBeforeEveryLine ==
  /\ Historical
  /\ \A i \in 1..Len(registerSales) : AsOfDay < DayOf(registerSales[i].date)

C11_ScenarioAsStated ==
  (WidgetScenario /\ AsOfBeforeEveryLine) =>
    /\ ret.val.stock = product.initialStock
    /\ ret.val.quantitySold = SumQty(BeforeInitial)

\* C11 amended: in that scenario the historical computation as of the
\* earlier day yields stock = initialStock and quantitySold = 0, neither line
\* being dated on or before the as-of day.
C11_ScenarioNothingSoldYet ==
  (WidgetScenario /\ AsOfBeforeEveryLine) =>
    /\ ret.val.stock = product.initialStock
    /\ ret.val.quantitySold = 0

\* the scenario computed as of the earlier day
C11_Witness ==
  /\ WidgetScenario
  /\ AsOfBeforeEveryLine
  /\ ret.val.flag = TRUE
  /\ ret.val.stock = MaxStock

StatsCalled == stats.op # "none"

Positions == 1..Len(filteredProducts)

\* the stock and the quantity sold of a product in the active view: the
\* display values on the stock screen, the product's own fields in the list
\* handed to useStockStatistics
EffectiveStock(p) == IF stats.op = "statistics" THEN p.displayStock ELSE p.stock

EffectiveSold(p) ==
  IF stats.op = "statistics" THEN p.displayQuantitySold ELSE p.quantitySold

\* the sum of values[i] over the positions i of a set
RECURSIVE Total(_, _)
Total(values, I) ==
  IF I = {} THEN 0
  ELSE LET i == CHOOSE x \in I : TRUE
       IN  values[i] + Total(values, I \ {i})

StockAt == [i \in Positions |-> EffectiveStock(filteredProducts[i])]
SoldAt == [i \in Positions |-> EffectiveSold(filteredProducts[i])]
RevenueAt ==
  [i \in Positions |->
     EffectiveSold(filteredProducts[i]) * filteredProducts[i].price]

CategoriesOfList == { filteredProducts[i].category : i \in Positions }
InCategory(c) == { i \in Positions : filteredProducts[i].category = c }

\* C13: for every product list handed to the aggregator, totalProducts is
\* the length of the list, totalStock the sum of the effective stocks,
\* totalSold the sum of the quantities sold, outOfStock the number of
\* products whose stock is 0 and lowStock the number of products with
\* 0 < stock <= minStock.
C13_Totals ==
  StatsCalled =>
    /\ stats.val.totalProducts = Cardinality(Positions)
    /\ stats.val.totalStock = Total(StockAt, Positions)
    /\ stats.val.totalSold = Total(SoldAt, Positions)
    /\ stats.val.outOfStock = Cardinality({ i \in Positions : StockAt[i] = 0 })
    /\ stats.val.lowStock =
         Cardinality({ i \in Positions :
           0 < StockAt[i] /\ StockAt[i] <= filteredProducts[i].minStock })

\* three products: one out of stock below its threshold, one low, one
\* healthy, and something sold
C13_Witness ==
  /\ stats.op = "useStockStatistics"
  /\ Len(filteredProducts) = 3
  /\ \E i \in Positions : /\ filteredProducts[i].stock = 0
                          /\ filteredProducts[i].minStock > 0
  /\ stats.val.outOfStock = 1
  /\ stats.val.lowStock = 1
  /\ stats.val.totalSold > 0

\* C14: for every product list, totalRevenue is the sum over the products of
\* effective quantitySold x price, in the current view and in the historical
\* view.
C14_RevenueIsSoldTimesPrice ==
  StatsCalled => stats.val.totalRevenue = Total(RevenueAt, Positions)

\* C15: the category breakdown has exactly one entry per distinct category of
\* the list, each entry carries the sub-totals of the products of its
\* category (so the entries add up to the totals), and the entries are in
\* order of non-increasing count.
C15_CategoryBreakdown ==
  stats.op = "useStockStatistics" =>
    LET entries == stats.val.categoryCounts
        K == 1..Len(entries)
    IN  /\ Len(entries) = Cardinality(CategoriesOfList)
        /\ { entries[k].category : k \in K } = CategoriesOfList
        /\ \A k \in K :
             LET I == InCategory(entries[k].category)
             IN  /\ entries[k].count = Cardinality(I)
                 /\ entries[k].stock = Total(StockAt, I)
                 /\ entries[k].sold = Total(SoldAt, I)
                 /\ entries[k].revenue = Total(RevenueAt, I)
        /\ Total([k \in K |-> entries[k].count], K) = stats.val.totalProducts
        /\ Total([k \in K |-> entries[k].stock], K) = stats.val.totalStock
        /\ Total([k \in K |-> entries[k].sold], K) = stats.val.totalSold
        /\ Total([k \in K |-> entries[k].revenue], K) = stats.val.totalRevenue
        /\ \A k \in K : k + 1 \in K => entries[k].count >= entries[k + 1].count

\* the category met first has one product, the other has two: the breakdown
\* lists the other first
C15_Witness ==
  /\ stats.op = "useStockStatistics"
  /\ Len(filteredProducts) = 3
  /\ Len(stats.val.categoryCounts) = 2
  /\ stats.val.categoryCounts[1].count = 2
  /\ stats.val.categoryCounts[1].category # filteredProducts[1].category
  /\ stats.val.categoryCounts[1].revenue > 0

\* C16: for an empty product list the aggregator returns 0 for
\* totalProducts, totalStock, totalSold, outOfStock, lowStock and
\* totalRevenue, and an empty category breakdown.
C16_EmptyList ==
  (StatsCalled /\ filteredProducts = << >>) =>
    /\ stats.val.totalProducts = 0
    /\ stats.val.totalStock = 0
    /\ stats.val.totalSold = 0
    /\ stats.val.outOfStock = 0
    /\ stats.val.lowStock = 0
    /\ stats.val.totalRevenue = 0
    /\ stats.op = "useStockStatistics" => stats.val.categoryCounts = << >>

\* useStockStatistics was called on the empty list
C16_Witness ==
  /\ stats.op = "useStockStatistics"
  /\ filteredProducts = << >>
  /\ stats.val.stockLevels.healthy = 0


\* C17: reconciliation, early-sales detection, filtering/sorting and
\* aggregation leave their inputs as they were: the product, the ledger, the
\* repository and the list handed to useStockStatistics are unchanged by
\* every step, and after the filtering and sorting of the stock screen the
\* array of enhanced products it was given holds the same products in the
\* same order as enhancedProducts produced them.
C17_NoSideEffects ==
  [][ /\ product' = product
      /\ registerSales' = registerSales
      /\ products' = products
      /\ stats'.op = "useStockStatistics" => filteredProducts' = filteredProducts
      /\ stats'.op = "statistics" =>
           enhanced' = enhancedProducts(products, registerSales, dateRange)
    ]_vars


\* the ledgers made of the lines of a ledger in another order
Reorderings(ledger) ==
  LET n == Len(ledger)
      Bijections == { f \in [1..n -> 1..n] :
                        \A i, j \in 1..n : f[i] = f[j] => i = j }
  IN  { [i \in 1..n |-> ledger[f[i]]] : f \in Bijections }

\* C18: reconciliation is deterministic: what an invocation returned (stock,
\* quantitySold, isHistorical, hasEarlySales), whatever was invoked before
\* it, is what the function returns for the same product and as-of date on
\* the ledger's lines taken in any order.
C18_Deterministic ==
  \A ledger \in Reorderings(registerSales) :
    /\ ret.op = "calculateStockFinal" =>
         ret.val.stock = calculateStockFinal(product, ledger)
    /\ ret.op = "hasEarlySales" =>
         ret.val.flag = hasEarlySales(product, ledger)
    /\ ret.op = "calculateHistoricalStock" =>
         ret.val = calculateHistoricalStock(product, ledger, ret.targetDate)

\* the stock computed from a ledger of two different lines of the product,
\* one deducted and one not
C18_Witness ==
  /\ ret.op = "calculateStockFinal"
  /\ HasInitialStockDate
  /\ Len(registerSales) = 2
  /\ Matched = 1..2
  /\ registerSales[1].quantity > registerSales[2].quantity
  /\ ret.val.stock < product.initialStock


\* ------------------------------------------ vocabulary of the edit claims
\* the product of the repository a write is about
WrittenProduct == CHOOSE p \in { products[i] : i \in 1..Len(products) } :
                    p.id = written.id

\* C19: whatever the sequence of edit operations (inline initial-stock
\* change, edit-form save, edit-modal save), the stock written to the
\* repository for a product is derived from the initial stock written with
\* it and the quantity sold, max(0, initialStock - quantitySold), and is
\* never a value taken from a stock field the user edited.
C19_WrittenStockIsDerived ==
  (written # NoWrite /\ written.call = "onUpdateProduct") =>
    /\ ~IsNaN(written.updates.stock)
    /\ ~IsNaN(written.updates.initialStock)
    /\ written.updates.stock[1] =
         ClampAtZero(written.updates.initialStock[1] - WrittenProduct.quantitySold)

\* the product as the claim wants it handed to onSave
ValidProduct(p) ==
  /\ trim(p.name) # << >>
  /\ trim(p.category) # << >>
  /\ \A f \in {"price", "initialStock", "minStock"} :
       ~IsNaN(p[f]) /\ p[f][1] >= 0
  /\ p.initialStockDate # << >>

\* the fields of the form that fail one of these conditions
FailingFields(formData) ==
  { f \in {"name", "category"} : trim(formData[f]) = << >> }
  \cup { f \in {"price", "initialStock", "minStock"} :
           IsNaN(formData[f]) \/ formData[f][1] < 0 }
  \cup { f \in {"initialStockDate"} : formData[f] = << >> }

\* C20: the modal calls onSave only with a product whose name and category
\* are not blank, whose price, initialStock and minStock are numbers >= 0
\* and whose initialStockDate is not empty; when one of these fails, onSave
\* is not called, an error is recorded for each failing field and the form
\* data is left unchanged.
C20_SaveOnlyValidProducts ==
  [][ HandleSave =>
        /\ written' # written => ValidProduct(written'.updates)
        /\ FailingFields(modal.formData) # {} =>
             /\ written' = written
             /\ modal'.formData = modal.formData
             /\ \A f \in FailingFields(modal.formData) :
                  f \in DOMAIN modal'.errors /\ modal'.errors[f] # ""
    ]_vars


\* ------------------------------------------------ the date-range filters
\* the instants a date range lets through, both day boundaries included
WithinRange(t, range) ==
  /\ range.start # << >> => t >= startOfDay(newDate(range.start))
  /\ range.end # << >> => t <= endOfDay(newDate(range.end))

\* C21: the date-range filter is inclusive at both day boundaries.  A ledger
\* line is kept by getFilteredSales exactly when its date is within the
\* range, and a product whose stockHistory has entries is kept by
\* useFilteredProducts exactly when one of its entries is within the range;
\* a date exactly at the start-of-day or at the end-of-day instant is kept.
C21_RangeInclusive ==
  /\ rangeRet.op = "getFilteredSales" =>
        rangeRet.val = SelectSeq(registerSales,
                                 LAMBDA sale : WithinRange(sale.date, dateRange))
  /\ (rangeRet.op = "useFilteredProducts" /\ products # << >>
        /\ products[1].stockHistory # << >>) =>
        (rangeRet.val # << >>
           <=> \E n \in 1..Len(products[1].stockHistory) :
                 WithinRange(products[1].stockHistory[n].date, dateRange))


\* ------------------------------------------------- early and counted sales
\* the instant of the baseline, when the initial stock date is set
BaselineInstant == InitialDay * TicksPerDay

\* matched lines strictly before the baseline, and on or after it
EarlyPart == { i \in Matched : registerSales[i].date < BaselineInstant }
CountedPart == { i \in Matched : registerSales[i].date >= BaselineInstant }

\* C22: with an initial stock date, the matched lines are split in two: a
\* matched line passes exactly one of the filter of getEarlySalesQuantity
\* (strictly before the baseline) and the filter of calculateStockFinal (on
\* or after it), and an unmatched line passes neither.  getEarlySalesQuantity
\* returns the quantity of the early part, calculateStockFinal deducts the
\* quantity of the other part, the two quantities add up to the quantity of
\* all matched lines, and hasEarlySales is true exactly when the early part
\* is not empty.
C22_EarlyCountedPartition ==
  (ret.op # "none" /\ HasInitialStockDate) =>
    /\ \A i \in 1..Len(registerSales) :
         LET sale == registerSales[i]
         IN  IF i \in Matched
             THEN earlySale(sale, product) # relevantSale(sale, product)
             ELSE ~earlySale(sale, product) /\ ~relevantSale(sale, product)
    /\ SumQty(EarlyPart) + SumQty(CountedPart) = SumQty(Matched)
    /\ ret.op = "getEarlySalesQuantity" =>
         ret.val.quantitySold = SumQty(EarlyPart)
    /\ ret.op = "calculateStockFinal" =>
         ret.val.stock =
           ClampAtZero(product.initialStock
                       - (SumQty(Matched)
                          - getEarlySalesQuantity(product, registerSales)))
    /\ ret.op = "hasEarlySales" => (ret.val.flag <=> EarlyPart # {})

\* units were sold both before the baseline and from it on, and the early
\* ones were counted
C22_Witness ==
  /\ ret.op = "getEarlySalesQuantity"
  /\ HasInitialStockDate
  /\ SumQty(EarlyPart) > 0
  /\ SumQty(CountedPart) > 0
  /\ \E i \in CountedPart : registerSales[i].date = BaselineInstant
  /\ ret.val.quantitySold = SumQty(EarlyPart)


\* ------------------------------------------------------ the StockModule screen
\* C23: a confirmed deletion with a non-empty selection calls one delete
\* callback, onDeleteProduct when one id is selected and onDeleteProducts
\* otherwise, with the selected ids.  When the deletion succeeded the
\* selection is emptied and the modal closed; when it failed (the callback
\* rejected, or onDeleteProducts resolved to false) the selection and the
\* open modal are left as they were; in every case isDeleting is false
\* afterwards.
C23_ConfirmedDeletion ==
  [][ /\ (ConfirmDelete \/ HandleDeleteProducts) =>
           /\ deleteCall'.ids = selectedProducts
           /\ deleteCall'.callback =
                IF Cardinality(selectedProducts) = 1 THEN "onDeleteProduct"
                ELSE "onDeleteProducts"
      /\ DeleteSettles =>
           /\ isDeleting' = FALSE
           /\ IF deleteCall'.outcome \in {"resolved", "true"}
              THEN selectedProducts' = {} /\ showDeleteModal' = FALSE
              ELSE /\ selectedProducts' = selectedProducts
                   /\ showDeleteModal' = showDeleteModal
    ]_vars


\* C24: whatever the sequence of search changes, clearFilters, page-size
\* changes, goToPage calls and deletions, the current page is in range:
\* 1 <= currentPage <= max(1, totalPages).
C24_PageInRange ==
  screen = "StockModule" =>
    /\ 1 <= currentPage
    /\ currentPage <= Max(1, Hook.totalPages)

\* C26: toggleSelectAll acts on the current page.  When some product of the
\* page is not selected, the selection becomes the set of the ids of the
\* page; when the selection is that set, it becomes empty; whatever the
\* selection was, made on another page or under another search included.
C26_ToggleSelectAllOnPage ==
  [][ ToggleSelectAll =>
        LET page == idsOf(Hook.paginatedProducts)
        IN  /\ ~(page \subseteq selectedProducts) => selectedProducts' = page
            /\ selectedProducts = page => selectedProducts' = {}
    ]_vars


\* C29: when the sync modal is closed no sync is awaited and no result is
\* kept; at most one call of autoSyncProductsFromSales is outstanding, and
\* isSyncing is true exactly while one is; a sync that settles leaves
\* isSyncing false and a result whose success flag is true exactly when the
\* call resolved.
C29_SyncDialog ==
  /\ [](/\ ~showSyncModal => (~isSyncing /\ syncResult = NoSyncResult)
        /\ syncCalls.outstanding <= 1
        /\ isSyncing <=> syncCalls.outstanding = 1
        /\ syncResult # NoSyncResult =>
             (syncResult[1].success <=> syncCalls.settled = "resolved"))
  /\ [][ SyncSettles =>
           /\ isSyncing' = FALSE
           /\ syncResult' # NoSyncResult
           /\ syncResult'[1].success <=> syncCalls'.settled = "resolved"
       ]_vars

\* a sync was launched from the modal, was rejected, and its result is shown
C29_Witness ==
  /\ showSyncModal
  /\ ~isSyncing
  /\ syncCalls = [outstanding |-> 0, settled |-> "rejected"]
  /\ syncResult = <<[success |-> FALSE]>>

\* ------------------------------------------------------ useFilteredProducts
HookCalled == hook.op = "useFilteredProducts"

\* the page the hook returns for the same props and page k
PageOf(k) ==
  useFilteredProducts([hookProps EXCEPT !.currentPage = k]).paginatedProducts

\* the pages 1..k, one after the other
RECURSIVE ConcatPages(_)
ConcatPages(k) == IF k = 0 THEN << >> ELSE ConcatPages(k - 1) \o PageOf(k)

\* C25: for a sorted list of n products and a page size >= 1, totalPages is
\* ceil(n / itemsPerPage), and the pages 1..totalPages are consecutive
\* slices whose concatenation is the sorted list: each page holds at most
\* itemsPerPage products, every page but the last holds exactly
\* itemsPerPage, and the page returned is the slice of the current page.
C25_PagesPartitionTheList ==
  HookCalled =>
    LET sorted == hook.val.sortedProducts
        n == Len(sorted)
        size == hookProps.itemsPerPage
        total == hook.val.totalPages
        page == hookProps.currentPage
    IN  /\ total * size >= n
        /\ total = 0 \/ (total - 1) * size < n
        /\ ConcatPages(total) = sorted
        /\ \A k \in 1..total :
             /\ Len(PageOf(k)) <= size
             /\ k < total => Len(PageOf(k)) = size
        /\ page \in 1..total =>
             hook.val.paginatedProducts =
               SubSeq(sorted, (page - 1) * size + 1, Min(page * size, n))

\* the last of several pages was returned, and it is not full
C25_Witness ==
  /\ HookCalled
  /\ hook.val.totalPages >= 2
  /\ hookProps.currentPage = hook.val.totalPages
  /\ Len(hook.val.paginatedProducts) >= 1
  /\ Len(hook.val.paginatedProducts) < hookProps.itemsPerPage


\* the value of a column as the claim orders it: strings in lower case,
\* numbers as they are
ColumnValue(p, field) ==
  IF field \in {"name", "category"} THEN toLowerCase(p[field]) ELSE p[field]

\* a <= b on two such values
ColumnLeq(a, b, field) ==
  IF field \in {"name", "category"} THEN a = b \/ stringLess(a, b) ELSE a <= b

\* list is a permutation of other
IsPermutation(list, other) ==
  /\ Len(list) = Len(other)
  /\ \A p \in { list[i] : i \in 1..Len(list) } \cup { other[i] : i \in 1..Len(other) } :
       Cardinality({ i \in 1..Len(list) : list[i] = p })
         = Cardinality({ i \in 1..Len(other) : other[i] = p })

\* sorted is ordered on a column in a direction
OrderedOn(sorted, field, direction) ==
  \A i \in 1..(Len(sorted) - 1) :
    LET a == ColumnValue(sorted[i], field)
        b == ColumnValue(sorted[i + 1], field)
    IN  IF direction = "asc" THEN ColumnLeq(a, b, field)
        ELSE ColumnLeq(b, a, field)

\* C27: sortedProducts is a permutation of filteredProducts ordered on the
\* sort column: ascending, every adjacent pair (a, b) has
\* a[field] <= b[field], strings compared in lower case; descending,
\* a[field] >= b[field]; for every sortable column, the stock column
\* included, ordered on the number in stock.
C27_SortedOnColumn ==
  HookCalled =>
    /\ IsPermutation(hook.val.sortedProducts, hook.val.filteredProducts)
    /\ OrderedOn(hook.val.sortedProducts, hookProps.sortField,
                 hookProps.sortDirection)


\* the three stock levels of the claims
LevelOf(p) ==
  IF p.stock = 0 THEN "out"
  ELSE IF p.stock <= p.minStock THEN "low"
  ELSE "ok"

\* what the hook keeps for the same props and a stock-level filter
KeptAtLevel(level) ==
  useFilteredProducts(
    [hookProps EXCEPT !.filterStockLevel = level]).filteredProducts

CountOf(list, level) ==
  Cardinality({ i \in 1..Len(list) : LevelOf(list[i]) = level })

\* C30: on a list of products with stock >= 0 and minStock >= 0, each
\* product is in exactly one of the three stock levels: the counts
\* outOfStock, lowStock and healthy of stockLevels add up to totalProducts,
\* healthy is the number of products with stock > minStock, the filters
\* 'out', 'low' and 'ok' keep the products of their level, in pairwise
\* disjoint lists that cover the whole list, and the status text of the
\* table names the same level.
C30_StockLevelsPartition ==
  HookCalled =>
    LET list == hook.val.filteredProducts
        levels == stats.val.stockLevels
        all == hookProps.products
    IN  /\ levels.outOfStock + levels.lowStock + levels.healthy
             = stats.val.totalProducts
        /\ stats.val.totalProducts = Len(list)
        /\ levels.outOfStock = CountOf(list, "out")
        /\ levels.lowStock = CountOf(list, "low")
        /\ levels.healthy =
             Cardinality({ i \in 1..Len(list) : list[i].stock > list[i].minStock })
        /\ \A level \in {"out", "low", "ok"} :
             KeptAtLevel(level) =
               SelectSeq(all, LAMBDA product_ : LevelOf(product_) = level)
        /\ \A i \in 1..Len(all) :
             Cardinality({ level \in {"out", "low", "ok"} :
                             \E j \in 1..Len(KeptAtLevel(level)) :
                               KeptAtLevel(level)[j] = all[i] }) = 1
        /\ hookProps.filterStockLevel \in {"out", "low", "ok"} =>
             \A i \in 1..Len(list) :
               /\ LevelOf(list[i]) = hookProps.filterStockLevel
               /\ getStockStatusText(list[i]) =
                    (CASE hookProps.filterStockLevel = "out" -> "Rupture"
                       [] hookProps.filterStockLevel = "low" -> "Faible"
                       [] hookProps.filterStockLevel = "ok" -> "OK")

\* the 'ok' filter was applied to a list that holds a product of each
\* level, one of them at its threshold and one out of stock below its
\* threshold
C30_Witness ==
  /\ HookCalled
  /\ hookProps.filterStockLevel = "ok"
  /\ Len(hook.val.filteredProducts) >= 1
  /\ \A level \in {"out", "low", "ok"} : CountOf(hookProps.products, level) >= 1
  /\ \E i \in 1..Len(hookProps.products) :
       /\ hookProps.products[i].stock > 0
       /\ hookProps.products[i].stock = hookProps.products[i].minStock
  /\ stats.val.stockLevels.healthy = Len(hook.val.filteredProducts)


\* ------------------------------------------------- saving the view state
\* C28: the save of the view state is debounced.  On a mounted screen
\* either one timeout is pending, closed over the current values, and
\* updateState was not called since they last changed, or none is pending
\* and updateState was called exactly once since, with the current values;
\* a call of updateState always carries the current values; and unless the
\* six values keep changing for ever, the screen is again and again
\* unmounted or with that one call made.
C28_DebouncedSave ==
  /\ [](screen # "none" =>
          \/ timeouts = {ViewFields} /\ updateStateCalls = << >>
          \/ timeouts = {} /\ updateStateCalls = <<ViewFields>>)
  /\ [][ \A closure \in timeouts :
           TimeoutFires(closure) =>
             updateStateCalls' = <<ViewFields>> ]_vars
  /\ \/ []<><<ViewFields' # ViewFields>>_vars
     \/ []<>(screen = "none" \/ updateStateCalls = <<ViewFields>>)

\* the search term was changed while a save was pending, and the one call
\* made since carries the new term
C28_Witness ==
  /\ screen = "StockModule"
  /\ searchTerm = <<"x">>
  /\ currentPage = 2
  /\ timeouts = {}
  /\ updateStateCalls = <<ViewFields>>

====
